---- MODULE Spec2Model ----
(***************************************************************************)
(* The training loop of src/evals/train.py: run_training drives, per run,  *)
(* evaluate_all (a semaphore-bounded fan-out of evaluate_single), score,   *)
(* the optional hard-set pass, the stop checks, judge_failures (a fan-out  *)
(* of judge_single through judge_llm), build_taxonomy and optimize_prompt. *)
(* Every action is one atomic segment of the coroutines, from one await to *)
(* the next.  Pass rates are kept in tenths of a percentage point          *)
(* (round(x, 1) of the code), prompt texts as sequences of segments.       *)
(***************************************************************************)
EXTENDS Integers, Sequences, FiniteSets, TLC

\* ---- bounds of the model ----
\* Width of both semaphores.  config/train.py sets 20; the width is scaled
\* down so that a batch can be wider than the semaphore.
CONCURRENCY == 2
\* Largest main dataset and largest --iterations override.
MaxEntries == 3
MaxOverride == 1

\* ---- program constants ----
MAX_ITERATIONS == 5
\* IMPROVEMENT_THRESHOLD = 1.0 percentage point, in tenths.
IMPROVEMENT_THRESHOLD == 10
\* "The revised prompt MUST be under 5000 characters total."
PROMPT_CHAR_LIMIT == 5000

None == "None"
Absent == "<absent>"

\* ---- prompt texts ----
Seg(kind, n) == [kind |-> kind, n |-> n]
FLAGS_PH == Seg("{{FLAGS}}", 9)
CONTEXT_PH == Seg("{{CONTEXT}}", 11)

get_default_prompt ==
    << Seg("text", 708), FLAGS_PH, Seg("text", 42), CONTEXT_PH, Seg("text", 294) >>

RECURSIVE Chars(_)
Chars(text) == IF text = << >> THEN 0 ELSE Head(text).n + Chars(Tail(text))

Count(text, kind) == Cardinality({k \in DOMAIN text : text[k].kind = kind})

\* current_prompt is None or a str.
NoPrompt == [none |-> TRUE, text |-> << >>]
Str(t) == [none |-> FALSE, text |-> t]
\* Python truthiness of an Optional[str]: None and "" are falsy.
Truthy(p) == ~p.none /\ Chars(p.text) > 0
\* `current_prompt or get_default_prompt()`
OrDefault(p) == IF Truthy(p) THEN p.text ELSE get_default_prompt

\* Texts the optimizer model may answer with.
RevisedPrompt ==
    << Seg("text", 760), FLAGS_PH, Seg("text", 42), CONTEXT_PH, Seg("text", 294) >>
MissingFlagsPrompt ==
    << Seg("text", 760), Seg("text", 42), CONTEXT_PH, Seg("text", 294) >>
DuplicateContextPrompt ==
    << Seg("text", 708), FLAGS_PH, Seg("text", 42), CONTEXT_PH, Seg("text", 30), CONTEXT_PH >>
TooLongPrompt ==
    << Seg("text", 4000), FLAGS_PH, Seg("text", 42), CONTEXT_PH, Seg("text", 938) >>
EmptyPrompt == << >>

\* The JSON object the optimizer call returns: with or without a "prompt" key.
OptimizerAnswers ==
    {[has_prompt |-> FALSE, prompt |-> << >>]} \cup
    {[has_prompt |-> TRUE, prompt |-> t] :
        t \in {RevisedPrompt, MissingFlagsPrompt, DuplicateContextPrompt,
               TooLongPrompt, EmptyPrompt}}
NoAnswer == [has_prompt |-> FALSE, prompt |-> << >>, unset |-> TRUE]

\* ---- dataset ----
ToSet(list) == {list[k] : k \in DOMAIN list}

GroundTruth(i) == IF i % 2 = 1 THEN << "Rudeness" >> ELSE << >>
CaseType(i) == IF i % 2 = 1 THEN "true_positive" ELSE "true_negative"
Entry(i) ==
    [id |-> i, message |-> i, ground_truth_flags |-> GroundTruth(i), case_type |-> CaseType(i)]
HardEntry(i) ==
    [id |-> 100 + i, message |-> 100 + i, ground_truth_flags |-> << "Rudeness" >>,
     case_type |-> "context_dependent"]
load_dataset(n) == [i \in 1..n |-> Entry(i)]
\* hard_set.json is absent (None) or holds the one hard case.
HardSets == {<< >>, << HardEntry(1) >>}

\* ---- the target API ----
FlagAnswers == { << >>, << "Rudeness" >> }
\* The decimal numeral of n >= 0 as a text.
DigitText == << "0", "1", "2", "3", "4", "5", "6", "7", "8", "9" >>
RECURSIVE Numeral(_)
Numeral(n) ==
    IF n < 10 THEN DigitText[n + 1] ELSE Numeral(n \div 10) \o DigitText[(n % 10) + 1]
\* Line 78: f"HTTP {resp.status_code}"
HttpStatusText(status) == "HTTP " \o Numeral(status)
Responses ==
    {[status |-> 200, body_error |-> Absent, flags |-> f] : f \in FlagAnswers} \cup
    {[status |-> 500, body_error |-> e, flags |-> << >>] : e \in {Absent, ""}}

\* evaluate_single after the response arrived.
evaluate_single(entry, resp) ==
    IF resp.status # 200
    THEN [id |-> entry.id, predicted_flags |-> << >>,
          error |-> IF resp.body_error = Absent THEN HttpStatusText(resp.status)
                    ELSE resp.body_error]
    ELSE [id |-> entry.id, predicted_flags |-> resp.flags, error |-> None]

\* p.get("error") as a condition: None and "" are falsy.
HasError(p) == p.error # None /\ p.error # ""

\* ---- state ----
VARIABLES
    max_iter, evaluate_only, dataset, hard_set,   \* inputs of run_training
    pc, run_num, current_prompt, prev_pass_rate,  \* the loop
    tasks, sem, judge_sem,                        \* the current fan-out
    predictions, results, metrics,
    scored_errors,            \* ids of errored predictions handed to score in this run
    judgments, taxonomy, optimizer_result,
    saved, last_rate, log, stop_reason, crash_phase

inputs == << max_iter, evaluate_only, dataset, hard_set >>
locals == << predictions, results, metrics, scored_errors, judgments, taxonomy,
             optimizer_result >>
vars == << max_iter, evaluate_only, dataset, hard_set, pc, run_num, current_prompt,
           prev_pass_rate, tasks, sem, judge_sem, predictions, results, metrics,
           scored_errors, judgments, taxonomy, optimizer_result, saved,
           last_rate, log, stop_reason, crash_phase >>

\* ---- score ----
\* The names of the flag catalog (config/generate.py).
FLAGS == {"Vagueness", "Non-Objective", "Circular", "Rudeness", "Passive-Aggressive",
          "Fake", "One-Liner"}

\* ---- the floats of the code ----
\* A natural number as the sequence of its digits to the base 256, least
\* significant first and without a leading zero; a float as [m, e], the
\* number m * 2^e with m of at most 53 significant bits (IEEE 754 binary64,
\* the float of Python).  Whole numbers below 2^22 are handled.
RECURSIVE NatLimbs(_)
NatLimbs(n) == IF n = 0 THEN << >> ELSE << n % 256 >> \o NatLimbs(n \div 256)
RECURSIVE Trim(_)
Trim(b) == IF b = << >> \/ b[Len(b)] # 0 THEN b ELSE Trim(SubSeq(b, 1, Len(b) - 1))
Reverse(b) == [k \in 1..Len(b) |-> b[Len(b) + 1 - k]]
Limb(b, k) == IF k <= Len(b) THEN b[k] ELSE 0
Rest(b) == IF b = << >> THEN b ELSE Tail(b)
\* Bit k of b, from 1 for the least significant, and the number of its bits.
BitOf(b, k) == (Limb(b, ((k - 1) \div 8) + 1) \div (2 ^ ((k - 1) % 8))) % 2
BitLen(b) ==
    IF b = << >> THEN 0
    ELSE 8 * (Len(b) - 1) + (CHOOSE n \in 1..8 : 2 ^ (n - 1) <= b[Len(b)] /\ b[Len(b)] < 2 ^ n)
\* b * k + carry
RECURSIVE MulCarry(_, _, _)
MulCarry(b, k, carry) ==
    IF b = << >> THEN NatLimbs(carry)
    ELSE LET v == Head(b) * k + carry
         IN  << v % 256 >> \o MulCarry(Tail(b), k, v \div 256)
MulSmall(b, k) == Trim(MulCarry(b, k, 0))
\* 2^s, and b * 2^s
Pow2Limbs(s) == [k \in 1..(s \div 8) |-> 0] \o << 2 ^ (s % 8) >>
Shl(b, s) == IF b = << >> THEN b ELSE [k \in 1..(s \div 8) |-> 0] \o MulSmall(b, 2 ^ (s % 8))
\* a + b + carry
RECURSIVE AddCarry(_, _, _)
AddCarry(a, b, carry) ==
    IF a = << >> /\ b = << >> THEN NatLimbs(carry)
    ELSE LET v == Limb(a, 1) + Limb(b, 1) + carry
         IN  << v % 256 >> \o AddCarry(Rest(a), Rest(b), v \div 256)
\* a - b - borrow, for a >= b + borrow
RECURSIVE SubBorrow(_, _, _)
SubBorrow(a, b, borrow) ==
    IF a = << >> THEN << >>
    ELSE LET v == Head(a) - Limb(b, 1) - borrow
         IN  << (v + 256) % 256 >> \o SubBorrow(Tail(a), Rest(b), IF v < 0 THEN 1 ELSE 0)
\* The sign of a - b.
CmpLimbs(a, b) ==
    IF Len(a) # Len(b) THEN (IF Len(a) > Len(b) THEN 1 ELSE -1)
    ELSE LET diff == {k \in DOMAIN a : a[k] # b[k]}
         IN  IF diff = {} THEN 0
             ELSE LET top == CHOOSE k \in diff : \A j \in diff : j <= k
                  IN  IF a[top] > b[top] THEN 1 ELSE -1
\* The first k digits of the fraction r / d (r < d), most significant first,
\* and what is left of r after them.
RECURSIVE FractionLimbs(_, _, _)
FractionLimbs(r, d, k) ==
    IF k = 0 THEN << >>
    ELSE << (256 * r) \div d >> \o FractionLimbs((256 * r) % d, d, k - 1)
RECURSIVE FractionRest(_, _, _)
FractionRest(r, d, k) == IF k = 0 THEN r ELSE FractionRest((256 * r) % d, d, k - 1)
\* Round to nearest, ties to even: b with the bits below its 53 leading ones
\* cleared, one unit of the last kept bit more when what is cut off (the low
\* bits of b, and below them something more when `sticky`) is more than half
\* a unit, or half a unit after an odd bit.
RoundNat(b, sticky) ==
    IF BitLen(b) <= 53 THEN b
    ELSE LET drop == BitLen(b) - 53
             kept == [k \in DOMAIN b |->
                        IF k <= drop \div 8 THEN 0
                        ELSE IF k = (drop \div 8) + 1 THEN b[k] - (b[k] % (2 ^ (drop % 8)))
                        ELSE b[k]]
             more == sticky \/ \E k \in 1..(drop - 1) : BitOf(b, k) = 1
             up == BitOf(b, drop) = 1 /\ (more \/ BitOf(b, drop + 1) = 1)
         IN  IF up THEN Trim(AddCarry(kept, Pow2Limbs(drop), 0)) ELSE kept
\* n / d of two ints: the quotient to 96 binary places, rounded.
FloatDiv(n, d) ==
    LET quotient == Trim(Reverse(FractionLimbs(n % d, d, 12)) \o NatLimbs(n \div d))
    IN  [m |-> RoundNat(quotient, FractionRest(n % d, d, 12) # 0), e |-> -96]
\* x * k for a float x and a small whole number k
FloatMul(x, k) == [m |-> RoundNat(MulSmall(x.m, k), FALSE), e |-> x.e]
\* x - y for x >= y
FloatSub(x, y) ==
    LET e0 == IF x.e < y.e THEN x.e ELSE y.e
    IN  [m |-> RoundNat(Trim(SubBorrow(Shl(x.m, x.e - e0), Shl(y.m, y.e - e0), 0)), FALSE),
         e |-> e0]
\* x < y
FloatLess(x, y) ==
    LET e0 == IF x.e < y.e THEN x.e ELSE y.e
    IN  CmpLimbs(Shl(x.m, x.e - e0), Shl(y.m, y.e - e0)) < 0
\* The sign of x - n / d for a float x.
CmpRat(x, n, d) ==
    IF x.e >= 0 THEN CmpLimbs(MulSmall(Shl(x.m, x.e), d), NatLimbs(n))
    ELSE CmpLimbs(MulSmall(x.m, d), Shl(NatLimbs(n), -x.e))
\* round(x, ndigits) for a float x whose exact quotient n / d lies half way
\* between k and k + 1 units of the last digit: the result is the one or the
\* other when x is below or above n / d, and the even one when x is n / d.
RoundTie(x, n, d, k) ==
    LET c == CmpRat(x, n, d)
    IN  IF c > 0 THEN k + 1
        ELSE IF c < 0 THEN k
        ELSE IF k % 2 = 0 THEN k ELSE k + 1

\* Mutant: the rate is cut to one decimal, not rounded.
Truncate1(passed, total) == (1000 * passed) \div total
\* round(100 * passed / total, 1), in tenths: the nearest tenth, and at a tie
\* the tenth on the side of the float.
Round1(passed, total) ==
    IF (2000 * passed) % (2 * total) # total
    THEN (2000 * passed + total) \div (2 * total)
    ELSE RoundTie(FloatDiv(100 * passed, total), 100 * passed, total,
                  (1000 * passed) \div total)
\* round(n / d, 3), in thousandths.
Round3(n, d) ==
    IF (2000 * n) % (2 * d) # d
    THEN (2000 * n + d) \div (2 * d)
    ELSE RoundTie(FloatDiv(n, d), n, d, (1000 * n) \div d)

\* Mutant: a prediction that covers the ground truth passes.
PassedOnSuperset(gt, pd_flags) == gt \subseteq pd_flags
\* Line 118: `passed = gt == pd_flags`
Passed(gt, pd_flags) == gt = pd_flags
\* Line 119: entry.get("case_type", "unknown")
CaseTypeOf(entry) == IF entry.case_type = Absent THEN "unknown" ELSE entry.case_type

ScoredResult(entry, preds) ==
    LET present == entry.id \in DOMAIN preds
        gt == ToSet(entry.ground_truth_flags)
        pd_flags == IF present THEN ToSet(preds[entry.id].predicted_flags) ELSE {}
    IN [id |-> entry.id, case_type |-> CaseTypeOf(entry), message |-> entry.message,
        ground_truth_flags |-> gt, predicted_flags |-> pd_flags,
        passed |-> Passed(gt, pd_flags),
        error |-> IF present THEN preds[entry.id].error ELSE None]

\* Lines 129-134: the per-flag counters, as the number of results that add one.
per_flag_tp(res, flag) ==
    Cardinality({i \in DOMAIN res :
                    flag \in res[i].ground_truth_flags \cap res[i].predicted_flags})
per_flag_fp(res, flag) ==
    Cardinality({i \in DOMAIN res :
                    flag \in res[i].predicted_flags \ res[i].ground_truth_flags})
per_flag_fn(res, flag) ==
    Cardinality({i \in DOMAIN res :
                    flag \in res[i].ground_truth_flags \ res[i].predicted_flags})
\* Line 149: the flags that have a counter.
all_flag_names(res) ==
    UNION {res[i].ground_truth_flags \cup res[i].predicted_flags : i \in DOMAIN res}
\* Lines 150-157: precision and recall in thousandths.
per_flag_metrics(res) ==
    [flag \in all_flag_names(res) |->
        LET tp == per_flag_tp(res, flag)
            fp == per_flag_fp(res, flag)
            fn == per_flag_fn(res, flag)
        IN [precision |-> IF tp + fp > 0 THEN Round3(tp, tp + fp) ELSE 0,
            recall |-> IF tp + fn > 0 THEN Round3(tp, tp + fn) ELSE 0,
            tp |-> tp, fp |-> fp, fn |-> fn]]

\* Lines 120-126, 171-178
by_case_type(res) ==
    [ct \in {res[i].case_type : i \in DOMAIN res} |->
        LET total == Cardinality({i \in DOMAIN res : res[i].case_type = ct})
            passed == Cardinality({i \in DOMAIN res : res[i].case_type = ct /\ res[i].passed})
        IN [total |-> total, passed |-> passed,
            pass_rate |-> IF total > 0 THEN Round1(passed, total) ELSE 0]]

\* Mutant: every result counts as a negative.
AnyCaseType(r) == TRUE
\* Line 160
TrueNegative(r) == r.case_type = "true_negative"
\* Lines 160-162, 180
false_positive_rate_on_negatives(res) ==
    LET tn_cases == SelectSeq(res, TrueNegative)
        tn_total == Len(tn_cases)
        tn_fp == Cardinality({i \in DOMAIN tn_cases : ~tn_cases[i].passed})
    IN  IF tn_total > 0 THEN Round1(tn_fp, tn_total) ELSE 0

\* Mutant: the number of passed results is reported as the rate.
PassedCount(passed, total) == 1000 * passed
\* Line 170
overall_pass_rate(passed, total) == IF total > 0 THEN Round1(passed, total) ELSE 0

score(ds, preds) ==
    LET res == [i \in 1..Len(ds) |-> ScoredResult(ds[i], preds)]
        total == Len(res)
        total_passed == Cardinality({i \in 1..Len(res) : res[i].passed})
    IN [results |-> res,
        metrics |-> [total |-> total, passed |-> total_passed,
                     overall_pass_rate |-> overall_pass_rate(total_passed, total),
                     by_case_type |-> by_case_type(res),
                     per_flag |-> per_flag_metrics(res),
                     false_positive_rate_on_negatives |->
                         false_positive_rate_on_negatives(res)]]
\* The value of `metrics` before the first score call of a run.
NoMetrics == [total |-> 0, passed |-> 0, overall_pass_rate |-> 0, by_case_type |-> << >>,
              per_flag |-> << >>, false_positive_rate_on_negatives |-> 0]

\* ---- judge, taxonomy ----
\* Mutant: every result that did not pass is judged, errored or not.
failures_with_errors(res) == SelectSeq(res, LAMBDA r : ~r.passed)
\* Line 219
failures_of(res) == SelectSeq(res, LAMBDA r : ~r.passed /\ ~HasError(r))

judge_single(failure) ==
    [id |-> failure.id, message |-> failure.message,
     ground_truth_flags |-> failure.ground_truth_flags,
     predicted_flags |-> failure.predicted_flags]

\* What the taxonomy model may answer for the judgments js (a missing
\* "patterns" key reads as the empty list).
TaxonomyAnswers(js) ==
    IF js = << >> THEN {[patterns |-> << >>]}
    ELSE
    { [patterns |-> << >>],
      [patterns |-> << [pattern |-> "p1", count |-> Len(js), example_ids |-> << js[1].id >>] >>],
      [patterns |-> << [pattern |-> "p1", count |-> 1, example_ids |-> << js[1].id >>],
                       [pattern |-> "p2", count |-> 2, example_ids |-> << 999 >>] >>] }
NoTaxonomy == [patterns |-> << >>, unset |-> TRUE]

EvalPhases == {"evaluating", "hard_evaluating"}
NoMapping == << >>
\* A coroutine that has not returned yet.
NoOut == [none |-> TRUE, id |-> 0, predicted_flags |-> << >>, error |-> None]
Ev(ev, run) == [ev |-> ev, run |-> run]
\* The log keeps the steps of the current run and the last step of the run
\* before it.
LastStep(l) == IF l = << >> THEN << >> ELSE << l[Len(l)] >>

\* `max_iterations or MAX_ITERATIONS`
MaxIter(override) ==
    IF override.given /\ override.value # 0 THEN override.value ELSE MAX_ITERATIONS
Overrides ==
    {[given |-> FALSE, value |-> 0]} \cup
    {[given |-> TRUE, value |-> v] : v \in (-1)..MaxOverride}

Init ==
    /\ \E o \in Overrides : max_iter = MaxIter(o)
    /\ evaluate_only \in BOOLEAN
    /\ \E n \in 0..MaxEntries : dataset = load_dataset(n)
    /\ hard_set \in HardSets
    /\ pc = "loop_head"
    /\ run_num = 1
    /\ current_prompt = NoPrompt
    /\ prev_pass_rate = 0
    /\ tasks = << >>
    /\ sem = CONCURRENCY
    /\ judge_sem = CONCURRENCY
    /\ predictions = NoMapping
    /\ results = << >>
    /\ metrics = NoMetrics
    /\ scored_errors = {}
    /\ judgments = << >>
    /\ taxonomy = NoTaxonomy
    /\ optimizer_result = NoAnswer
    /\ saved = {}
    /\ last_rate = 0
    /\ log = << >>
    /\ stop_reason = "running"
    /\ crash_phase = "none"

\* ---- add_synthetic_timestamps ----
\* Longest context of the model.
MaxContext == 3
\* base = 1700000000
BASE_TS == 1700000000

\* str(n) for n >= 0: the decimal digits, most significant first.
RECURSIVE str(_)
str(n) == IF n < 10 THEN << n >> ELSE Append(str(n \div 10), n % 10)
\* int(s)
RECURSIVE int(_)
int(s) == IF s = << >> THEN 0 ELSE 10 * int(SubSeq(s, 1, Len(s) - 1)) + s[Len(s)]
\* a < b for two strings of digits, as Python compares strings.
RECURSIVE StrLess(_, _)
StrLess(a, b) ==
    IF b = << >> THEN FALSE
    ELSE IF a = << >> THEN TRUE
    ELSE IF Head(a) # Head(b) THEN Head(a) < Head(b)
    ELSE StrLess(Tail(a), Tail(b))

\* Mutant: every message gets the base value.
SameTimestamp(i) == str(BASE_TS)
\* Line 54: `str(base + i)` for the message at index i (from 0).
Timestamp(i) == str(BASE_TS + i)
\* Lines 53-56: a new list of new dicts.
add_synthetic_timestamps(context) ==
    [k \in DOMAIN context |->
        [text |-> context[k].text, user |-> context[k].user, ts |-> Timestamp(k - 1)]]

\* Line 63: `entry.get("context", [])`
Context(entry) == IF "context" \in DOMAIN entry THEN entry.context ELSE << >>

\* ---- the fan-out of one batch ----
\* One coroutine per item, all pending on the semaphore.
NewTasks(batch) ==
    [i \in 1..Len(batch) |-> [st |-> "waiting", id |-> batch[i].id, prompt |-> NoPrompt,
                              context |-> << >>, out |-> NoOut]]
\* The phase whose batch the event loop is running: after run_training has
\* ended with an exception (line 456, asyncio.run) the coroutines of the batch
\* it was awaiting are still scheduled.
BatchPhase == IF pc = "crashed" THEN crash_phase ELSE pc
\* asyncio.run cancels every pending coroutine at once (task.cancel() marks
\* each of them) and the cancellations are then delivered one callback each:
\* once one was delivered no coroutine of the batch is resumed normally.
Cancelling(ts) == \E i \in DOMAIN ts : ts[i].st = "cancelled"
\* The coroutines of the batch run: run_training awaits their gather, or it
\* has ended with the exception and the loop still runs the callbacks that
\* are ready before the cancellation.
Scheduled(phases) == BatchPhase \in phases /\ ~Cancelling(tasks)
Batch == IF BatchPhase = "evaluating" THEN dataset ELSE hard_set
\* Mutant: the barrier lets a started, unfinished request through.
AllStarted(ts) == \A i \in DOMAIN ts : ts[i].st # "waiting"
\* asyncio.gather returns when every awaitable has returned.
AllDone(ts) == \A i \in DOMAIN ts : ts[i].st = "done"
InFlight(ts) == {i \in DOMAIN ts : ts[i].st = "inflight"}
\* Mutant: the semaphore admits a request at value 0.
CanAcquireAtZero(value) == value >= 0
\* asyncio.Semaphore.acquire proceeds only while the value is positive.
CanAcquire(value) == value > 0
\* `if custom_prompt: payload["prompt"] = custom_prompt`
PayloadPrompt(custom_prompt) == IF Truthy(custom_prompt) THEN custom_prompt ELSE NoPrompt
\* Mutant: every result is written under the id of the first one.
MappingUnderOneKey(ts) ==
    [id \in {ts[i].id : i \in DOMAIN ts \cap {1}} |-> ts[Len(ts)].out]
\* {r["id"]: r for r in results}
Mapping(ts) ==
    [id \in {ts[i].id : i \in DOMAIN ts} |->
        LET last == CHOOSE i \in DOMAIN ts :
                        ts[i].id = id /\ \A j \in DOMAIN ts : ts[j].id = id => j <= i
        IN ts[last].out]
Errored(preds) == {id \in DOMAIN preds : HasError(preds[id])}

\* ---- run_training ----
RunFiles(run, names) == {<< run, f >> : f \in names}

\* Lines 365-374: the loop header and the dispatch of the main batch.  The
\* locals of the previous iteration are rebound before they are read again;
\* last_rate keeps the overall pass rate that the previous run saved.
StartRun ==
    /\ pc = "loop_head"
    /\ run_num <= max_iter
    /\ pc' = "evaluating"
    /\ tasks' = NewTasks(dataset)
    /\ sem' = CONCURRENCY
    /\ log' = Append(LastStep(log), Ev("evaluate", run_num))
    /\ predictions' = NoMapping
    /\ results' = << >>
    /\ metrics' = NoMetrics
    /\ scored_errors' = {}
    /\ judgments' = << >>
    /\ taxonomy' = NoTaxonomy
    /\ optimizer_result' = NoAnswer
    /\ last_rate' = metrics.overall_pass_rate
    /\ UNCHANGED << inputs, run_num, current_prompt, prev_pass_rate, judge_sem,
                    saved, stop_reason, crash_phase >>

\* range(1, max_iter + 1) is exhausted.
LoopExit ==
    /\ pc = "loop_head"
    /\ run_num > max_iter
    /\ pc' = "complete"
    /\ stop_reason' = "max_iterations"
    /\ UNCHANGED << inputs, run_num, current_prompt, prev_pass_rate, tasks, sem,
                    judge_sem, locals, saved, last_rate, log, crash_phase >>

\* evaluate_single, lines 62-72: the semaphore is entered and the payload
\* built, with the context of the entry stamped by add_synthetic_timestamps.
Acquire(i) ==
    /\ tasks[i].st = "waiting"
    /\ Scheduled(EvalPhases)
    /\ CanAcquire(sem)
    /\ sem' = sem - 1
    /\ tasks' = [tasks EXCEPT ![i].st = "inflight",
                              ![i].prompt = PayloadPrompt(current_prompt),
                              ![i].context = add_synthetic_timestamps(Context(Batch[i]))]
    /\ UNCHANGED << inputs, pc, run_num, current_prompt, prev_pass_rate, judge_sem,
                    locals, saved, last_rate, log, stop_reason, crash_phase >>

\* evaluate_single, lines 74-91: the response arrived and parsed.
Respond(i, resp) ==
    /\ tasks[i].st = "inflight"
    /\ Scheduled(EvalPhases)
    /\ sem' = sem + 1
    /\ tasks' = [tasks EXCEPT ![i].st = "done",
                              ![i].out = evaluate_single(Batch[i], resp)]
    /\ UNCHANGED << inputs, pc, run_num, current_prompt, prev_pass_rate, judge_sem,
                    locals, saved, last_rate, log, stop_reason, crash_phase >>

\* evaluate_single, lines 74-75: client.post raises (timeout, transport
\* error) or resp.json() raises (malformed body); nothing catches it: the
\* coroutine ends with the exception and leaves the semaphore.  The other
\* coroutines go on until run_training is resumed with the exception.
RequestRaises(i) ==
    /\ tasks[i].st = "inflight"
    /\ Scheduled(EvalPhases)
    /\ sem' = sem + 1
    /\ tasks' = [tasks EXCEPT ![i].st = "failed"]
    /\ UNCHANGED << inputs, pc, run_num, current_prompt, prev_pass_rate, judge_sem,
                    locals, saved, last_rate, log, stop_reason, crash_phase >>

Failed(ts) == {i \in DOMAIN ts : ts[i].st = "failed"}
\* evaluate_all, line 99: asyncio.gather hands the exception of a coroutine to
\* evaluate_all; it leaves run_training (line 374 or 399) and ends the run.
EvaluateAllRaises ==
    /\ pc \in EvalPhases
    /\ Failed(tasks) # {}
    /\ pc' = "crashed"
    /\ crash_phase' = pc
    /\ stop_reason' = "exception"
    /\ UNCHANGED << inputs, run_num, current_prompt, prev_pass_rate, tasks, sem,
                    judge_sem, locals, saved, last_rate, log >>

\* Lines 456-459, asyncio.run: once run_training has ended with an exception
\* the loop stops one iteration later and the coroutines that are still
\* pending are cancelled, each in a callback of its own; one that holds a
\* semaphore leaves it.
Cancel(i) ==
    /\ pc = "crashed"
    /\ tasks[i].st \in {"waiting", "inflight"}
    /\ tasks' = [tasks EXCEPT ![i].st = "cancelled"]
    /\ sem' = IF tasks[i].st = "inflight" /\ crash_phase \in EvalPhases
              THEN sem + 1 ELSE sem
    /\ judge_sem' = IF tasks[i].st = "inflight" /\ crash_phase = "judging"
                    THEN judge_sem + 1 ELSE judge_sem
    /\ UNCHANGED << inputs, pc, run_num, current_prompt, prev_pass_rate, locals,
                    saved, last_rate, log, stop_reason, crash_phase >>

\* Mutant: abort only when every prediction is errored.
ShouldAbortAllErrored(preds) == preds # << >> /\ Errored(preds) = DOMAIN preds
\* Line 379: `if errored:`
ShouldAbort(preds) == Errored(preds) # {}
\* Mutant: the threshold is dropped, only a decrease stops the loop.
NoImprovementOnDecrease(run, current_pass_rate, prev) ==
    run > 1 /\ current_pass_rate < prev
\* Line 411
\* current_pass_rate - prev_pass_rate < IMPROVEMENT_THRESHOLD on the floats
\* of the code, for rates in tenths: the floats are within 1e-13 of the
\* tenths, so only a difference of just the threshold is decided by them.
BelowThreshold(current_pass_rate, prev) ==
    IF current_pass_rate - prev # IMPROVEMENT_THRESHOLD
    THEN current_pass_rate - prev < IMPROVEMENT_THRESHOLD
    ELSE FloatLess(FloatSub(FloatDiv(current_pass_rate, 10), FloatDiv(prev, 10)),
                   FloatDiv(IMPROVEMENT_THRESHOLD, 10))
NoImprovement(run, current_pass_rate, prev) ==
    run > 1 /\ BelowThreshold(current_pass_rate, prev)
\* Mutant: the check for a full pass rate never fires.
ConvergedNever(current_pass_rate) == current_pass_rate > 1000
\* Line 415
Converged(current_pass_rate) == current_pass_rate = 1000

\* Mutant: evaluate-only mode runs the full loop.
EvaluateOnlyBreakSkipped(mode) == FALSE
\* Line 405: `if evaluate_only:`
EvaluateOnlyBreak(mode) == mode
\* Mutant: the loop goes on to the taxonomy with no judgment.
NoJudgmentsIgnored(js) == FALSE
\* Line 425: `if not judgments:`
NoJudgments(js) == js = << >>

\* A `break` out of the loop.
Stop(reason, saved1, log1) ==
    /\ pc' = "complete"
    /\ stop_reason' = reason
    /\ saved' = saved1
    /\ log' = Append(log1, Ev("stop", run_num))

\* Lines 405-427: the stop checks, then judge_failures up to its gather
\* (without a failure judge_failures returns [] at once, lines 219-221).
StopChecks(res, met, saved1, log1) ==
    LET current_pass_rate == met.overall_pass_rate
        failures == failures_of(res)
    IN  IF EvaluateOnlyBreak(evaluate_only) THEN
            /\ Stop("evaluate_only", saved1, log1)
            /\ UNCHANGED << prev_pass_rate, tasks, judgments >>
        ELSE IF NoImprovement(run_num, current_pass_rate, prev_pass_rate) THEN
            /\ Stop("no_improvement", saved1, log1)
            /\ UNCHANGED << prev_pass_rate, tasks, judgments >>
        ELSE IF Converged(current_pass_rate) THEN
            /\ Stop("converged", saved1, log1)
            /\ UNCHANGED << prev_pass_rate, tasks, judgments >>
        ELSE IF failures = << >> /\ NoJudgments(<< >>) THEN
            /\ Stop("no_judgments", saved1 \cup RunFiles(run_num, {"failures.json"}),
                    Append(log1, Ev("judge", run_num)))
            /\ prev_pass_rate' = current_pass_rate
            /\ judgments' = << >>
            /\ UNCHANGED tasks
        ELSE
            /\ pc' = "judging"
            /\ tasks' = NewTasks(failures)
            /\ log' = Append(log1, Ev("judge", run_num))
            /\ saved' = saved1
            /\ prev_pass_rate' = current_pass_rate
            /\ UNCHANGED << stop_reason, judgments >>

\* Lines 374-403: the main batch fanned in; abort, or score and save, then
\* the hard-set dispatch or the stop checks.
EvalFanIn ==
    /\ pc = "evaluating"
    /\ AllDone(tasks)
    /\ LET preds == Mapping(tasks) IN
        /\ predictions' = preds
        /\ IF ShouldAbort(preds) THEN
                /\ pc' = "complete"
                /\ stop_reason' = "pipeline_error"
                /\ log' = Append(log, Ev("abort", run_num))
                /\ UNCHANGED << results, metrics, scored_errors, saved,
                                prev_pass_rate, tasks, judgments, sem >>
           ELSE LET sc == score(dataset, preds)
                    log1 == Append(log, Ev("score", run_num))
                    saved1 == saved \cup RunFiles(run_num,
                                  {"results.json", "metrics.json", "prompt.txt"})
                IN  /\ results' = sc.results
                    /\ metrics' = sc.metrics
                    /\ scored_errors' = Errored(preds)
                    /\ IF hard_set # << >> THEN
                            /\ pc' = "hard_evaluating"
                            /\ tasks' = NewTasks(hard_set)
                            /\ sem' = CONCURRENCY
                            /\ log' = Append(log1, Ev("hard_evaluate", run_num))
                            /\ saved' = saved1
                            /\ UNCHANGED << stop_reason, prev_pass_rate, judgments >>
                       ELSE /\ StopChecks(sc.results, sc.metrics, saved1, log1)
                            /\ UNCHANGED sem
    /\ UNCHANGED << inputs, run_num, current_prompt, judge_sem,
                    taxonomy, optimizer_result, last_rate, crash_phase >>

\* Mutant: the stop checks read the metrics of the hard set.
StopMetricsOfHardSet(main_metrics, hard_metrics) == hard_metrics
\* Lines 410-415: the stop checks read `metrics`, never `hard_metrics`.
StopMetrics(main_metrics, hard_metrics) == main_metrics

\* Lines 399-427: the hard-set batch fanned in; it is scored and saved as it
\* is (hard_predictions, hard_results and hard_metrics are not read again),
\* then the stop checks on the main metrics.
HardFanIn ==
    /\ pc = "hard_evaluating"
    /\ AllDone(tasks)
    /\ scored_errors' = scored_errors \cup Errored(Mapping(tasks))
    /\ StopChecks(results,
                  StopMetrics(metrics, score(hard_set, Mapping(tasks)).metrics),
                  saved \cup RunFiles(run_num,
                      {"hard_set_results.json", "hard_set_metrics.json"}),
                  Append(log, Ev("hard_score", run_num)))
    /\ UNCHANGED << inputs, run_num, current_prompt, sem, judge_sem, predictions,
                    results, metrics, taxonomy, optimizer_result, last_rate,
                    crash_phase >>

\* ---- judge_failures ----
\* Mutant: the phase is entered again after a failed model call.
Retried(phase) == phase
\* judge_llm, lines 23-29: no try/except here or in any caller, so an
\* exception of the call or of json.loads ends run_training.
Fatal(phase) == "crashed"

\* judge_llm, line 23
JudgeAcquire(i) ==
    /\ tasks[i].st = "waiting"
    /\ Scheduled({"judging"})
    /\ CanAcquire(judge_sem)
    /\ judge_sem' = judge_sem - 1
    /\ tasks' = [tasks EXCEPT ![i].st = "inflight"]
    /\ UNCHANGED << inputs, pc, run_num, current_prompt, prev_pass_rate, sem,
                    locals, saved, last_rate, log, stop_reason, crash_phase >>

\* judge_llm returned a JSON object; judge_single, lines 212-216.
JudgeReturns(i) ==
    /\ tasks[i].st = "inflight"
    /\ Scheduled({"judging"})
    /\ judge_sem' = judge_sem + 1
    /\ tasks' = [tasks EXCEPT ![i].st = "done",
                              ![i].out = judge_single(failures_of(results)[i])]
    /\ UNCHANGED << inputs, pc, run_num, current_prompt, prev_pass_rate, sem,
                    locals, saved, last_rate, log, stop_reason, crash_phase >>

\* judge_llm, lines 24-29: the call or json.loads raises; the coroutine ends
\* with the exception and leaves the semaphore.
JudgeRaises(i) ==
    /\ tasks[i].st = "inflight"
    /\ Scheduled({"judging"})
    /\ judge_sem' = judge_sem + 1
    /\ tasks' = [tasks EXCEPT ![i].st = "failed"]
    /\ UNCHANGED << inputs, pc, run_num, current_prompt, prev_pass_rate, sem,
                    locals, saved, last_rate, log, stop_reason, crash_phase >>

\* judge_failures, line 228: asyncio.gather hands the exception to
\* judge_failures; it leaves run_training (line 422).
JudgeFailuresRaises ==
    /\ pc = "judging"
    /\ Failed(tasks) # {}
    /\ pc' = Fatal(pc)
    /\ crash_phase' = pc
    /\ stop_reason' = "exception"
    /\ UNCHANGED << inputs, run_num, current_prompt, prev_pass_rate, tasks, sem,
                    judge_sem, locals, saved, last_rate, log >>

\* Lines 422-430: the judgments fanned in and are saved; build_taxonomy
\* enters judge_llm.
JudgeFanIn ==
    /\ pc = "judging"
    /\ AllDone(tasks)
    /\ CanAcquire(judge_sem)
    /\ judgments' = [i \in DOMAIN tasks |-> tasks[i].out]
    /\ saved' = saved \cup RunFiles(run_num, {"failures.json"})
    /\ pc' = "taxonomizing"
    /\ judge_sem' = judge_sem - 1
    /\ log' = Append(log, Ev("taxonomy", run_num))
    /\ UNCHANGED << inputs, run_num, current_prompt, prev_pass_rate, tasks, sem,
                    predictions, results, metrics, scored_errors, taxonomy,
                    optimizer_result, last_rate, stop_reason, crash_phase >>

\* Line 438: the end of the loop body.
EndIteration ==
    /\ pc' = "loop_head"
    /\ run_num' = run_num + 1

\* Lines 430-436: the taxonomy arrived and is saved; optimize_prompt returns
\* its argument when there is no pattern, and enters judge_llm otherwise.
\* Mutant: the optimizer model is asked even when there is no pattern.
HasPatternsAlways(tax) == TRUE
\* optimize_prompt, lines 289-291: `if not patterns: return current_prompt`
HasPatterns(tax) == tax.patterns # << >>

TaxonomyReturns(answer) ==
    /\ pc = "taxonomizing"
    /\ taxonomy' = answer
    /\ saved' = saved \cup RunFiles(run_num, {"taxonomy.json"})
    /\ IF ~HasPatterns(answer) THEN
            /\ current_prompt' = Str(OrDefault(current_prompt))
            /\ EndIteration
            /\ judge_sem' = judge_sem + 1
            /\ log' = Append(log, Ev("optimize", run_num))
       ELSE /\ pc' = "optimizing"
            /\ judge_sem' = judge_sem
            /\ log' = Append(Append(log, Ev("optimize", run_num)),
                             Ev("optimizer_llm", run_num))
            /\ UNCHANGED << current_prompt, run_num >>
    /\ UNCHANGED << inputs, prev_pass_rate, tasks, sem, predictions, results,
                    metrics, scored_errors, judgments, optimizer_result,
                    last_rate, stop_reason, crash_phase >>

\* Lines 330-335, 436: `result.get("prompt", current_prompt)` becomes the
\* current prompt.
AcceptedPrompt(answer, base_prompt) ==
    IF answer.has_prompt THEN Str(answer.prompt) ELSE Str(base_prompt)

OptimizerReturns(answer) ==
    /\ pc = "optimizing"
    /\ optimizer_result' = answer
    /\ current_prompt' = AcceptedPrompt(answer, OrDefault(current_prompt))
    /\ judge_sem' = judge_sem + 1
    /\ EndIteration
    /\ UNCHANGED << inputs, prev_pass_rate, tasks, sem, predictions, results,
                    metrics, scored_errors, judgments, taxonomy, saved, last_rate,
                    log,
                    stop_reason, crash_phase >>

\* The taxonomy or the optimizer call raises inside judge_llm.
LlmRaises ==
    /\ pc \in {"taxonomizing", "optimizing"}
    /\ pc' = Fatal(pc)
    /\ crash_phase' = pc
    /\ stop_reason' = "exception"
    /\ judge_sem' = judge_sem + 1
    /\ UNCHANGED << inputs, run_num, current_prompt, prev_pass_rate, tasks, sem,
                    locals, saved, last_rate, log >>

Next ==
    \/ StartRun
    \/ LoopExit
    \/ \E i \in DOMAIN tasks : Acquire(i)
    \/ \E i \in DOMAIN tasks : \E resp \in Responses : Respond(i, resp)
    \/ \E i \in DOMAIN tasks : RequestRaises(i)
    \/ EvaluateAllRaises
    \/ \E i \in DOMAIN tasks : Cancel(i)
    \/ EvalFanIn
    \/ HardFanIn
    \/ \E i \in DOMAIN tasks : JudgeAcquire(i)
    \/ \E i \in DOMAIN tasks : JudgeReturns(i)
    \/ \E i \in DOMAIN tasks : JudgeRaises(i)
    \/ JudgeFailuresRaises
    \/ JudgeFanIn
    \/ \E answer \in TaxonomyAnswers(judgments) : TaxonomyReturns(answer)
    \/ \E answer \in OptimizerAnswers : OptimizerReturns(answer)
    \/ LlmRaises

Spec == Init /\ [][Next]_vars

TypeOK ==
    /\ pc \in {"loop_head", "evaluating", "hard_evaluating", "judging", "taxonomizing",
               "optimizing", "complete", "crashed"}
    /\ sem \in 0..CONCURRENCY
    /\ judge_sem \in 0..CONCURRENCY
    /\ prev_pass_rate \in 0..1000

\* ---- score as a function of its arguments ----
\* The dataset entries score is applied to: a clean message, a one-flag and a
\* two-flag positive, and an entry without a case type whose flag is listed
\* twice.
ScoreEntryKinds ==
    { [ground_truth_flags |-> << >>, case_type |-> "true_negative"],
      [ground_truth_flags |-> << "Rudeness" >>, case_type |-> "true_positive"],
      [ground_truth_flags |-> << "Vagueness", "Rudeness" >>, case_type |-> "true_positive"],
      [ground_truth_flags |-> << "Rudeness", "Rudeness" >>, case_type |-> Absent] }
ScoreEntry(i, kind) ==
    [id |-> i, message |-> i, ground_truth_flags |-> kind.ground_truth_flags,
     case_type |-> kind.case_type]
\* What the predictions mapping holds for an entry: nothing, or a flag list.
PredictionKinds ==
    {[present |-> FALSE, predicted_flags |-> << >>]} \cup
    {[present |-> TRUE, predicted_flags |-> f] :
        f \in { << >>, << "Rudeness" >>, << "Vagueness" >>, << "Rudeness", "Vagueness" >> }}
PredictionsOf(preds) ==
    [id \in {i \in DOMAIN preds : preds[i].present} |->
        [id |-> id, predicted_flags |-> preds[id].predicted_flags, error |-> None]]

ScoreInit ==
    /\ \E n \in 0..MaxEntries :
        \E kinds \in [1..n -> ScoreEntryKinds], preds \in [1..n -> PredictionKinds] :
            /\ dataset = [i \in 1..n |-> ScoreEntry(i, kinds[i])]
            /\ predictions = PredictionsOf(preds)
    /\ pc = "score_input"
    /\ results = << >>
    /\ metrics = NoMetrics
    /\ max_iter = MAX_ITERATIONS
    /\ evaluate_only = TRUE
    /\ hard_set = << >>
    /\ run_num = 1
    /\ current_prompt = NoPrompt
    /\ prev_pass_rate = 0
    /\ tasks = << >>
    /\ sem = CONCURRENCY
    /\ judge_sem = CONCURRENCY
    /\ scored_errors = {}
    /\ judgments = << >>
    /\ taxonomy = NoTaxonomy
    /\ optimizer_result = NoAnswer
    /\ saved = {}
    /\ last_rate = 0
    /\ log = << >>
    /\ stop_reason = "running"
    /\ crash_phase = "none"

\* results, metrics = score(dataset, predictions)
ScoreCall ==
    /\ pc = "score_input"
    /\ pc' = "scored"
    /\ results' = score(dataset, predictions).results
    /\ metrics' = score(dataset, predictions).metrics
    /\ UNCHANGED << inputs, run_num, current_prompt, prev_pass_rate, tasks, sem,
                    judge_sem, predictions, scored_errors, judgments, taxonomy,
                    optimizer_result, saved, last_rate, log, stop_reason, crash_phase >>

ScoreNext == ScoreCall
ScoreSpec == ScoreInit /\ [][ScoreNext]_vars

\* ---- properties ----
EventsOfRun(run) == {log[k].ev : k \in {j \in DOMAIN log : log[j].run = run}}
FilesOfRun(run) == {f \in saved : f[1] = run}
Waiting(ts) == {i \in DOMAIN ts : ts[i].st = "waiting"}
\* The structural constraints on a prompt text (prompts/train.py, rules 5, 7).
Violates(text) ==
    \/ Count(text, "{{FLAGS}}") # 1
    \/ Count(text, "{{CONTEXT}}") # 1
    \/ Chars(text) >= PROMPT_CHAR_LIMIT

\* C1: in every state of an evaluation fan-out and of a judging fan-out, the
\* states after run_training has ended with an exception and the batch still
\* runs included, the number of requests that hold the phase's semaphore is
\* at most CONCURRENCY, and the permits taken and the permits left add up to
\* CONCURRENCY.
C1_InFlightBounded ==
    /\ Cardinality(InFlight(tasks)) <= CONCURRENCY
    /\ BatchPhase \in EvalPhases => sem = CONCURRENCY - Cardinality(InFlight(tasks))
    /\ BatchPhase = "judging" => judge_sem = CONCURRENCY - Cardinality(InFlight(tasks))
\* A judging fan-out with every permit taken and a request still waiting.
C1_Witness ==
    /\ pc = "judging"
    /\ Cardinality(InFlight(tasks)) = CONCURRENCY
    /\ Waiting(tasks) # {}

\* C2: no exception ever leaves evaluate_all: a request that times out or
\* hits a transport error ends as a Prediction with error set and empty
\* predicted_flags, so no run ends on an exception raised while evaluating.
C2_NoExceptionLeavesEvaluateAll ==
    /\ crash_phase \notin EvalPhases
    /\ \A i \in DOMAIN tasks : tasks[i].st # "failed"

\* C3: when one request of an evaluation batch fails with a transport error,
\* every other item of the batch runs to completion, none is cancelled, and
\* evaluate_all returns a mapping that holds their predictions.
C3_ErrorIsolation ==
    \A i \in DOMAIN tasks :
        (crash_phase \in EvalPhases /\ tasks[i].st = "failed") =>
            \A j \in DOMAIN tasks \ {i} :
                /\ tasks[j].st = "done"
                /\ pc # "crashed"

\* C4: when a prediction of the main batch of run n carries an error (or a
\* request of that batch raised), run n is aborted before scoring: score is
\* not called for run n, no artifact of run n is written, no judge, taxonomy
\* or optimizer step of run n happens, and the loop has ended.
MainBatchFailed == Errored(predictions) # {} \/ crash_phase = "evaluating"
C4_AbortBeforeScoring ==
    MainBatchFailed =>
        /\ pc \in {"complete", "crashed"}
        /\ pc = "complete" => stop_reason = "pipeline_error"
        /\ EventsOfRun(run_num) \subseteq {"evaluate", "abort"}
        /\ FilesOfRun(run_num) = {}
        /\ metrics = NoMetrics
\* Run 2 of a three-entry dataset was aborted on an errored prediction, after
\* run 1 had gone through its optimize step.
C4_Witness ==
    /\ Errored(predictions) # {}
    /\ run_num = 2
    /\ Len(dataset) = 3
    /\ pc = "complete"
    /\ FilesOfRun(1) # {}

\* C5: every batch handed to score, the main batch and the hard-set batch
\* alike, holds no prediction that carries an error.
C5_NoErroredPredictionScored == scored_errors = {}

\* C6: in full-loop mode, once run n >= 2 is scored (and its hard-set pass is
\* over) with a pass rate less than IMPROVEMENT_THRESHOLD above that of run
\* n-1, the loop has stopped in run n for that reason with no judge, taxonomy
\* or optimizer step in run n; and this stop never happens in run 1.
StopChecksDone == pc \notin {"loop_head", "evaluating", "hard_evaluating", "crashed"}
C6_StopsOnSmallImprovement ==
    /\ ( /\ ~evaluate_only
         /\ run_num >= 2
         /\ "score" \in EventsOfRun(run_num)
         /\ StopChecksDone
         /\ metrics.overall_pass_rate - last_rate < IMPROVEMENT_THRESHOLD )
       => /\ pc = "complete"
          /\ stop_reason = "no_improvement"
          /\ EventsOfRun(run_num) \cap {"judge", "taxonomy", "optimize", "optimizer_llm"} = {}
    /\ stop_reason = "no_improvement" => run_num >= 2
\* Run 2 scored lower than run 1 and the loop stopped there.
C6_Witness ==
    /\ stop_reason = "no_improvement"
    /\ run_num = 2
    /\ metrics.overall_pass_rate < last_rate

\* C7: in the iteration whose number equals the configured maximum the
\* optimize step is skipped: no optimizer LLM call is made in that iteration.
C7_NoOptimizerCallInFinalIteration ==
    "optimizer_llm" \notin EventsOfRun(max_iter)

\* C8: when the optimizer returns a prompt that violates a structural
\* constraint, the prompt of the next iteration's evaluation is the prompt of
\* the current iteration.
C8_RejectsInvalidPrompt ==
    [][ ( /\ pc = "optimizing"
          /\ pc' = "loop_head"
          /\ run_num < max_iter
          /\ optimizer_result'.has_prompt
          /\ Violates(optimizer_result'.prompt) )
        => OrDefault(PayloadPrompt(current_prompt')) = OrDefault(PayloadPrompt(current_prompt)) ]_vars

\* C9: every prompt text sent as the override parameter of an evaluation
\* request is shorter than 5000 characters and holds {{FLAGS}} and
\* {{CONTEXT}} exactly once each.
C9_SentPromptsValid ==
    \A i \in DOMAIN tasks :
        ~tasks[i].prompt.none => ~Violates(tasks[i].prompt.text)

\* C10: the steps of the loop are logged only in the order evaluate, score
\* (with the hard-set pass), then a stop or judge, taxonomy, optimize, and only
\* then the next run's evaluate; and every request of a fan-out has completed
\* when the step after it begins.
Follows(a, b) ==
    CASE a.ev = "evaluate" -> b.run = a.run /\ b.ev \in {"score", "abort"}
      [] a.ev = "score" -> b.run = a.run /\ b.ev \in {"hard_evaluate", "stop", "judge"}
      [] a.ev = "hard_evaluate" -> b.run = a.run /\ b.ev = "hard_score"
      [] a.ev = "hard_score" -> b.run = a.run /\ b.ev \in {"stop", "judge"}
      [] a.ev = "judge" -> b.run = a.run /\ b.ev \in {"stop", "taxonomy"}
      [] a.ev = "taxonomy" -> b.run = a.run /\ b.ev = "optimize"
      [] a.ev = "optimize" ->
            \/ b.run = a.run /\ b.ev = "optimizer_llm"
            \/ b.run = a.run + 1 /\ b.ev = "evaluate"
      [] a.ev = "optimizer_llm" -> b.run = a.run + 1 /\ b.ev = "evaluate"
      [] OTHER -> FALSE
C10_PhaseOrder ==
    /\ log # << >> =>
            \/ log[1] = Ev("evaluate", 1)
            \/ log[1].ev \in {"optimize", "optimizer_llm"} /\ Len(log) >= 2
    /\ \A k \in 1..(Len(log) - 1) : Follows(log[k], log[k + 1])
    /\ pc \in {"taxonomizing", "optimizing", "loop_head", "complete"} =>
            \A i \in DOMAIN tasks : tasks[i].st = "done"
    /\ pc = "judging" => log[Len(log)] = Ev("judge", run_num)
    /\ pc = "taxonomizing" => log[Len(log)] = Ev("taxonomy", run_num)
    /\ pc = "optimizing" => log[Len(log)] = Ev("optimizer_llm", run_num)
\* Run 2 is evaluating after run 1 went through judge, taxonomy (their
\* artifacts are saved) and an optimizer call.
C10_Witness ==
    /\ pc = "evaluating"
    /\ run_num = 2
    /\ log[1] = Ev("optimizer_llm", 1)
    /\ FilesOfRun(1) = RunFiles(1, {"results.json", "metrics.json", "prompt.txt",
                                     "failures.json", "taxonomy.json"})
    /\ InFlight(tasks) # {}

\* C11: the requests of run 1 carry no prompt override (the default prompt is
\* used), and every request of a later run, main set and hard set alike,
\* carries as its prompt exactly the text that the optimize step of the run
\* before returned; the current prompt is never anything else.
C11_PromptIsOptimizerOutput ==
    /\ run_num = 1 => current_prompt = NoPrompt
    /\ \A i \in DOMAIN tasks :
            (pc \in EvalPhases /\ tasks[i].st # "waiting") =>
                IF run_num = 1 THEN tasks[i].prompt = NoPrompt
                ELSE tasks[i].prompt = current_prompt

\* C12: once the judge step of a run has returned zero judgments, the loop has
\* stopped in that run for that reason: the run has no taxonomy step and no
\* optimize step, taxonomy.json is not written, and no evaluation follows.
JudgeStepDone ==
    /\ "judge" \in EventsOfRun(run_num)
    /\ pc # "judging"
    /\ ~(pc = "crashed" /\ crash_phase = "judging")
C12_StopsOnZeroJudgments ==
    /\ (JudgeStepDone /\ judgments = << >>) =>
            /\ pc = "complete"
            /\ stop_reason = "no_judgments"
            /\ log[Len(log)] = Ev("stop", run_num)
            /\ EventsOfRun(run_num) \cap {"taxonomy", "optimize", "optimizer_llm"} = {}
            /\ << run_num, "taxonomy.json" >> \notin saved
            /\ taxonomy = NoTaxonomy
    /\ stop_reason = "no_judgments" => JudgeStepDone /\ judgments = << >>
\* The judge step of run 1 found nothing to judge after the hard-set pass, and
\* the empty failures.json is the last artifact of the run.
C12_Witness ==
    /\ stop_reason = "no_judgments"
    /\ hard_set # << >>
    /\ log[Len(log) - 1] = Ev("judge", run_num)
    /\ << run_num, "failures.json" >> \in saved

\* C13 as stated: whenever a run is scored with an overall pass rate of 100,
\* the loop stops in that run as converged, with no judge, taxonomy or
\* optimizer step and no further evaluation.
ScoredAt100 ==
    /\ "score" \in EventsOfRun(run_num)
    /\ StopChecksDone
    /\ metrics.overall_pass_rate = 1000
NoStepAfterScoring ==
    /\ log[Len(log)] = Ev("stop", run_num)
    /\ EventsOfRun(run_num) \cap {"judge", "taxonomy", "optimize", "optimizer_llm"} = {}
    /\ FilesOfRun(run_num) \cap RunFiles(run_num, {"failures.json", "taxonomy.json"}) = {}
C13_StopsAsConverged ==
    ScoredAt100 =>
        /\ pc = "complete"
        /\ stop_reason = "converged"
        /\ NoStepAfterScoring

\* C13, amended: whenever a run is scored with an overall pass rate of 100
\* (and its hard-set pass is over), the loop stops in that run with no judge,
\* taxonomy or optimizer step and no further evaluation; the stop is the
\* converged one unless evaluate-only mode or the no-improvement check, which
\* are tested first, stopped the loop; and the converged stop happens only at
\* a pass rate of 100.
C13_StopsAtFullPassRate ==
    /\ ScoredAt100 =>
            /\ pc = "complete"
            /\ stop_reason =
                    IF evaluate_only THEN "evaluate_only"
                    ELSE IF NoImprovement(run_num, 1000, last_rate) THEN "no_improvement"
                    ELSE "converged"
            /\ NoStepAfterScoring
    /\ stop_reason = "converged" => ScoredAt100 /\ ~evaluate_only
\* Run 2 of a three-entry dataset reached 100 after the optimize step of run 1
\* and the loop stopped as converged once the hard-set pass was over.
C13_Witness ==
    /\ stop_reason = "converged"
    /\ run_num = 2
    /\ Len(dataset) = 3
    /\ "hard_score" \in EventsOfRun(2)

\* C14 as stated: a run_training call in evaluate-only mode makes exactly one
\* evaluation-and-scoring pass and then stops whatever the pass rate, with no
\* judge, taxonomy or optimizer step and the current prompt unchanged (taken
\* here for the calls whose iteration limit is at least 1).
ScoringPasses == Cardinality({k \in DOMAIN log : log[k].ev = "score"})
NoOptimizationEver ==
    /\ run_num = 1
    /\ current_prompt = NoPrompt
    /\ pc \notin {"judging", "taxonomizing", "optimizing"}
    /\ \A k \in DOMAIN log :
            log[k].ev \notin {"judge", "taxonomy", "optimize", "optimizer_llm"}
    /\ saved \cap RunFiles(1, {"failures.json", "taxonomy.json"}) = {}
    /\ judgments = << >> /\ taxonomy = NoTaxonomy /\ optimizer_result = NoAnswer
C14_ExactlyOnePass ==
    (evaluate_only /\ max_iter >= 1) =>
        /\ NoOptimizationEver
        /\ pc = "complete" => ScoringPasses = 1

\* C14, amended: in evaluate-only mode the loop never starts a second pass,
\* never runs a judge, taxonomy or optimizer step and never changes the current
\* prompt; a pass that is scored ends the loop through the evaluate-only stop
\* whatever its pass rate; and a call that returns has made one scored pass
\* unless the iteration limit is below 1 (no pass at all) or a prediction of
\* the main batch carries an error (the pass is aborted before scoring).
C14_EvaluateOnlyStopsAfterOnePass ==
    evaluate_only =>
        /\ NoOptimizationEver
        /\ ScoringPasses <= 1
        /\ Cardinality({k \in DOMAIN log : log[k].ev = "evaluate"}) <= 1
        /\ (ScoringPasses = 1 /\ StopChecksDone) =>
                /\ pc = "complete"
                /\ stop_reason = "evaluate_only"
                /\ log[Len(log)] = Ev("stop", 1)
        /\ pc = "complete" =>
                /\ stop_reason =
                        IF max_iter < 1 THEN "max_iterations"
                        ELSE IF MainBatchFailed THEN "pipeline_error"
                        ELSE "evaluate_only"
                /\ ScoringPasses = IF stop_reason = "evaluate_only" THEN 1 ELSE 0
\* An evaluate-only call over three entries stopped after its one pass, hard
\* set included, with a pass rate strictly between 0 and 100.
C14_Witness ==
    /\ evaluate_only
    /\ stop_reason = "evaluate_only"
    /\ Len(dataset) = 3
    /\ metrics.overall_pass_rate \in 1..999
    /\ "hard_score" \in EventsOfRun(1)
    /\ max_iter = MAX_ITERATIONS

\* ---- properties of score ----
Scored == pc = "scored"
\* The flag list the predictions mapping holds for an entry (none when the
\* entry has no prediction).
PredictedList(entry) ==
    IF entry.id \in DOMAIN predictions THEN predictions[entry.id].predicted_flags
    ELSE << >>
\* Two flag lists name the same flags, whatever their order and repetitions.
SameFlags(a, b) ==
    /\ \A k \in DOMAIN a : \E j \in DOMAIN b : b[j] = a[k]
    /\ \A j \in DOMAIN b : \E k \in DOMAIN a : a[k] = b[j]

\* C15: score returns one result per dataset entry, in order, and marks it
\* passed exactly when the entry's ground-truth flags and its predicted flags
\* name the same flags, order and duplicates ignored; a strict subset or
\* superset gives passed = FALSE.
C15_PassedIffSameFlagSets ==
    Scored =>
        /\ Len(results) = Len(dataset)
        /\ \A i \in DOMAIN dataset :
                /\ results[i].id = dataset[i].id
                /\ results[i].passed =
                        SameFlags(dataset[i].ground_truth_flags, PredictedList(dataset[i]))
\* A scored dataset with a pass on lists in different orders, a pass on a
\* repeated flag, and a failure on a strict subset.
C15_Witness ==
    /\ Scored
    /\ Len(dataset) = 3
    /\ dataset[1].ground_truth_flags = << "Vagueness", "Rudeness" >>
    /\ PredictedList(dataset[1]) = << "Rudeness", "Vagueness" >>
    /\ results[1].passed
    /\ dataset[2].ground_truth_flags = << "Rudeness", "Rudeness" >>
    /\ PredictedList(dataset[2]) = << "Rudeness" >>
    /\ results[2].passed
    /\ dataset[3].ground_truth_flags = << "Vagueness", "Rudeness" >>
    /\ PredictedList(dataset[3]) = << "Rudeness" >>
    /\ ~results[3].passed

\* C16: for every dataset entry whose id has no prediction in the predictions
\* mapping, the result of score has an empty predicted set and error
\* "missing", and is not passed, also when the entry's ground truth is empty.
C16_MissingPredictionIsError ==
    Scored =>
        \A i \in DOMAIN dataset :
            dataset[i].id \notin DOMAIN predictions =>
                /\ results[i].predicted_flags = {}
                /\ results[i].error = "missing"
                /\ ~results[i].passed

\* C17: for every dataset and every predictions mapping the metrics of score
\* have 0 <= overall_pass_rate <= 100 (1000 tenths) and passed <= total, with
\* total the number of entries; for the empty dataset score returns, and its
\* overall_pass_rate is 0.
C17_PassRateBounds ==
    Scored =>
        /\ 0 <= metrics.overall_pass_rate /\ metrics.overall_pass_rate <= 1000
        /\ 0 <= metrics.passed /\ metrics.passed <= metrics.total
        /\ metrics.total = Len(dataset)
        /\ dataset = << >> => metrics.overall_pass_rate = 0 /\ metrics.total = 0
\* score has returned for the empty dataset.
C17_Witness ==
    /\ Scored
    /\ dataset = << >>
    /\ results = << >>
    /\ metrics.overall_pass_rate = 0

\* Scenario A of the specification: an exact match, a clean entry predicted
\* flagged, and a partial overlap.
ScenarioA ==
    /\ dataset =
        << ScoreEntry(1, [ground_truth_flags |-> << "Rudeness" >>,
                          case_type |-> "true_positive"]),
           ScoreEntry(2, [ground_truth_flags |-> << >>, case_type |-> "true_negative"]),
           ScoreEntry(3, [ground_truth_flags |-> << "Vagueness", "Rudeness" >>,
                          case_type |-> "true_positive"]) >>
    /\ predictions =
        PredictionsOf(<< [present |-> TRUE, predicted_flags |-> << "Rudeness" >>],
                         [present |-> TRUE, predicted_flags |-> << "Vagueness" >>],
                         [present |-> TRUE, predicted_flags |-> << "Rudeness" >>] >>)
\* The number of entries whose predicted flags are the ground-truth flags.
MatchCount ==
    Cardinality({i \in DOMAIN dataset :
                    SameFlags(dataset[i].ground_truth_flags, PredictedList(dataset[i]))})
\* r is 1000 * k / n rounded to the nearest integer: a percentage in tenths,
\* a ratio in thousandths.
RoundedQuotient(r, k, n) ==
    /\ 2 * (n * r - 1000 * k) <= n
    /\ 2 * (1000 * k - n * r) <= n

\* C18: for every non-empty dataset overall_pass_rate is 100 times the number
\* of entries whose predicted set equals the ground-truth set, divided by the
\* number of entries, rounded to one decimal; in Scenario A it is 33.3.
C18_OverallPassRate ==
    (Scored /\ dataset # << >>) =>
        /\ metrics.passed = MatchCount
        /\ RoundedQuotient(metrics.overall_pass_rate, MatchCount, Len(dataset))
        /\ ScenarioA => metrics.overall_pass_rate = 333
\* Scenario A is scored.
C18_Witness ==
    /\ Scored
    /\ ScenarioA
    /\ metrics.passed = 1
    /\ metrics.overall_pass_rate = 333

\* The true_negative entries of the dataset, and those of them whose predicted
\* flags are not the ground-truth flags.
Negatives == {i \in DOMAIN dataset : dataset[i].case_type = "true_negative"}
FailedNegatives ==
    {i \in Negatives :
        ~SameFlags(dataset[i].ground_truth_flags, PredictedList(dataset[i]))}
IsNegative(entry) == entry.case_type = "true_negative"

\* C19 as stated: false_positive_rate_on_negatives equals 100 times the number
\* of failed true_negative results divided by the number of true_negative
\* results, and is 0 when there is none; results of other case types never
\* change it.
C19_FalsePositiveRateExact ==
    Scored =>
        /\ Negatives # {} =>
                metrics.false_positive_rate_on_negatives * Cardinality(Negatives)
                    = 1000 * Cardinality(FailedNegatives)
        /\ Negatives = {} => metrics.false_positive_rate_on_negatives = 0

\* C19, amended: false_positive_rate_on_negatives equals 100 times the number
\* of failed true_negative results divided by the number of true_negative
\* results, rounded to one decimal, and is 0 when there is none; it is the
\* rate of the true_negative entries scored alone, so results of other case
\* types never change it.
C19_FalsePositiveRateRounded ==
    Scored =>
        /\ Negatives # {} =>
                RoundedQuotient(metrics.false_positive_rate_on_negatives,
                             Cardinality(FailedNegatives), Cardinality(Negatives))
        /\ Negatives = {} => metrics.false_positive_rate_on_negatives = 0
        /\ metrics.false_positive_rate_on_negatives =
                score(SelectSeq(dataset, IsNegative), predictions)
                    .metrics.false_positive_rate_on_negatives
\* One of two true_negative entries failed, next to a failed true_positive.
C19_Witness ==
    /\ Scored
    /\ Cardinality(Negatives) = 2
    /\ Cardinality(FailedNegatives) = 1
    /\ \E i \in DOMAIN results :
            results[i].case_type = "true_positive" /\ ~results[i].passed
    /\ metrics.false_positive_rate_on_negatives = 500

\* The entries that count as true positive, false positive and false negative
\* of a flag.
HasFlag(list, flag) == \E k \in DOMAIN list : list[k] = flag
TruePositives(flag) ==
    {i \in DOMAIN dataset : /\ HasFlag(dataset[i].ground_truth_flags, flag)
                            /\ HasFlag(PredictedList(dataset[i]), flag)}
FalsePositives(flag) ==
    {i \in DOMAIN dataset : /\ ~HasFlag(dataset[i].ground_truth_flags, flag)
                            /\ HasFlag(PredictedList(dataset[i]), flag)}
FalseNegatives(flag) ==
    {i \in DOMAIN dataset : /\ HasFlag(dataset[i].ground_truth_flags, flag)
                            /\ ~HasFlag(PredictedList(dataset[i]), flag)}
\* The report of a flag holds TP/(TP+FP) and TP/(TP+FN) to three decimals, 0.0
\* for a denominator of 0.
ReportOf(flag, report) ==
    LET tp == Cardinality(TruePositives(flag))
        fp == Cardinality(FalsePositives(flag))
        fn == Cardinality(FalseNegatives(flag))
    IN  /\ IF tp + fp > 0 THEN RoundedQuotient(report.precision, tp, tp + fp)
           ELSE report.precision = 0
        /\ IF tp + fn > 0 THEN RoundedQuotient(report.recall, tp, tp + fn)
           ELSE report.recall = 0

\* C20: for every flag of the catalog the metrics of score report precision
\* TP/(TP+FP) and recall TP/(TP+FN), each 0.0 when its denominator is 0; a
\* flag with no predicted and no ground-truth occurrence is reported with
\* precision = recall = 0.0.
C20_PerFlagPrecisionRecall ==
    Scored =>
        \A flag \in FLAGS :
            /\ flag \in DOMAIN metrics.per_flag
            /\ ReportOf(flag, metrics.per_flag[flag])

\* ---- score called more than once ----
\* The arguments of the first call: clean, one-flag and two-flag entries, each
\* with no prediction or one of one flag.
RescoreEntryKinds ==
    {k \in ScoreEntryKinds : k.case_type \in {"true_negative", "true_positive"}}
RescorePredictionKinds == {k \in PredictionKinds : Len(k.predicted_flags) = 1 \/ ~k.present}
\* The arguments of a call made in between.
OtherInputs ==
    { [dataset |-> << >>, predictions |-> << >>],
      [dataset |-> << ScoreEntry(1, [ground_truth_flags |-> << >>,
                                     case_type |-> "true_negative"]) >>,
       predictions |-> PredictionsOf(<< [present |-> TRUE,
                                         predicted_flags |-> << "Vagueness" >>] >>)],
      [dataset |-> << ScoreEntry(1, [ground_truth_flags |-> << "Rudeness" >>,
                                     case_type |-> "true_positive"]),
                      ScoreEntry(2, [ground_truth_flags |-> << "Vagueness", "Rudeness" >>,
                                     case_type |-> "true_positive"]) >>,
       predictions |-> PredictionsOf(<< [present |-> TRUE,
                                         predicted_flags |-> << "Rudeness" >>],
                                        [present |-> FALSE, predicted_flags |-> << >>] >>)] }

\* The order in which Python iterates a set of strings follows their hashes,
\* which change with the hash seed of the process: the flag names of these
\* calls in one order or the other.
HashOrders == { << "Rudeness", "Vagueness" >>, << "Vagueness", "Rudeness" >> }
\* list(s) and `for flag in s` of a set s under the hash order h.
list(s, h) == SelectSeq(h, LAMBDA flag : flag \in s)
\* The flag names as Python orders strings.
Alphabetical ==
    << "Circular", "Fake", "Non-Objective", "One-Liner", "Passive-Aggressive", "Rudeness",
       "Vagueness" >>
sorted(s) == SelectSeq(Alphabetical, LAMBDA flag : flag \in s)
\* Mutant: `for flag in all_flag_names`, the set as it iterates.
UnsortedFlagKeys(names, h) == list(names, h)
\* Line 151: `for flag in sorted(all_flag_names)` inserts the keys of
\* metrics["per_flag"] in this order.
PerFlagKeys(names, h) == sorted(names)
\* Lines 122-123, 172-178: the keys of metrics["by_case_type"], each case type
\* where the dataset has it first.
CaseTypeKeys(res) ==
    LET firsts == {i \in DOMAIN res : \A j \in 1..(i - 1) : res[j].case_type # res[i].case_type}
    IN  [p \in 1..Cardinality(firsts) |->
            res[CHOOSE i \in firsts : Cardinality({j \in firsts : j <= i}) = p].case_type]
\* Lines 141-142: the flag lists of the results, `list(gt)` and
\* `list(pd_flags)`.
FlagLists(res, h) ==
    [i \in DOMAIN res |->
        [ground_truth_flags |-> list(res[i].ground_truth_flags, h),
         predicted_flags |-> list(res[i].predicted_flags, h)]]
\* The metrics dict as json.dumps writes it: its values and the order of the
\* keys of its two nested dicts.
WrittenMetrics(scored, h) ==
    [values |-> scored.metrics,
     per_flag_keys |-> PerFlagKeys(all_flag_names(scored.results), h),
     by_case_type_keys |-> CaseTypeKeys(scored.results)]
\* What a call was given and what it returned.
Call(ds, preds, scored, h) ==
    [dataset |-> ds, predictions |-> preds, metrics |-> WrittenMetrics(scored, h),
     flag_lists |-> FlagLists(scored.results, h)]

RescoreInit ==
    /\ \E n \in 0..MaxEntries :
        \E kinds \in [1..n -> RescoreEntryKinds], preds \in [1..n -> RescorePredictionKinds] :
            /\ dataset = [i \in 1..n |-> ScoreEntry(i, kinds[i])]
            /\ predictions = PredictionsOf(preds)
    /\ pc = "score_input"
    /\ results = << >>
    /\ metrics = NoMetrics
    /\ max_iter = MAX_ITERATIONS
    /\ evaluate_only = TRUE
    /\ hard_set = << >>
    /\ run_num = 1
    /\ current_prompt = NoPrompt
    /\ prev_pass_rate = 0
    /\ tasks = << >>
    /\ sem = CONCURRENCY
    /\ judge_sem = CONCURRENCY
    /\ scored_errors = {}
    /\ judgments = << >>
    /\ taxonomy = NoTaxonomy
    /\ optimizer_result = NoAnswer
    /\ saved = {}
    /\ last_rate = 0
    /\ log = << >>
    /\ stop_reason = "running"
    /\ crash_phase = "none"

\* results, metrics = score(ds, preds) in a process whose sets iterate in the
\* order h, with the call written to the log.
Scoring(ds, preds, h) ==
    /\ dataset' = ds
    /\ predictions' = preds
    /\ LET scored == score(ds, preds)
       IN  /\ results' = scored.results
           /\ metrics' = scored.metrics
           /\ log' = Append(log, Call(ds, preds, scored, h))
    /\ UNCHANGED << max_iter, evaluate_only, hard_set, run_num, current_prompt,
                    prev_pass_rate, tasks, sem, judge_sem, scored_errors, judgments,
                    taxonomy, optimizer_result, saved, last_rate, stop_reason,
                    crash_phase >>
FirstCall(h) ==
    /\ pc = "score_input"
    /\ pc' = "scored"
    /\ Scoring(dataset, predictions, h)
\* A call with other arguments.
OtherCall(b, h) ==
    /\ pc = "scored"
    /\ << b.dataset, b.predictions >> # << dataset, predictions >>
    /\ pc' = "other_scored"
    /\ Scoring(b.dataset, b.predictions, h)
\* A call with the arguments of the first call.
SameCall(h) ==
    /\ pc \in {"scored", "other_scored"}
    /\ pc' = "rescored"
    /\ Scoring(log[1].dataset, log[1].predictions, h)

RescoreNext ==
    \/ \E h \in HashOrders : FirstCall(h)
    \/ \E b \in OtherInputs, h \in HashOrders : OtherCall(b, h)
    \/ \E h \in HashOrders : SameCall(h)
RescoreSpec == RescoreInit /\ [][RescoreNext]_vars

\* C21: score is deterministic and keeps no state between calls: any two
\* calls with the same dataset and the same predictions return the same
\* metrics, value for value and key for key in the same order, whatever the
\* order in which the sets of either call iterated, also when a call with
\* other arguments was made in between.
C21_ScoreIsAFunction ==
    \A i, j \in DOMAIN log :
        (log[i].dataset = log[j].dataset /\ log[i].predictions = log[j].predictions)
            => log[i].metrics = log[j].metrics
\* Three calls: the first and the third with the same arguments and another
\* iteration order, so that their results list the flags of an entry in
\* another order, the second with other arguments and another outcome; the
\* first and the third report the same metrics, Rudeness before Vagueness.
C21_Witness ==
    /\ Len(log) = 3
    /\ Len(log[1].dataset) = 3
    /\ log[3].dataset = log[1].dataset /\ log[3].predictions = log[1].predictions
    /\ log[3].flag_lists # log[1].flag_lists
    /\ log[2].dataset # log[1].dataset
    /\ log[2].metrics # log[1].metrics
    /\ log[1].metrics.per_flag_keys = << "Rudeness", "Vagueness" >>
    /\ log[3].metrics = log[1].metrics
    /\ log[1].metrics.values.overall_pass_rate = 667
    /\ metrics = log[1].metrics.values

\* ---- evaluate.py: the match-type breakdown ----
\* Mutant: two flag sets never count as overlapping.
OverlapsNever(expected, actual) == FALSE
\* Line 30: `if expected & actual:`
Overlaps(expected, actual) == expected \cap actual # {}

get_match_type(r) ==
    LET expected_flagged == r.expected_is_flagged
        actual_flagged == r.actual_is_flagged
        expected == ToSet(r.expected_flags)
        actual == ToSet(r.actual_flags)
    IN  IF ~expected_flagged /\ ~actual_flagged THEN "true_negative"
        ELSE IF ~expected_flagged /\ actual_flagged THEN "false_positive"
        ELSE IF expected_flagged /\ ~actual_flagged THEN "missed"
        ELSE IF expected = actual THEN "exact"
        ELSE IF Overlaps(expected, actual) THEN "partial"
        ELSE "no_overlap"

\* round(n / d * 100, 2), in hundredths of a point.
Round2(n, d) ==
    IF (20000 * n) % (2 * d) # d
    THEN (20000 * n + d) \div (2 * d)
    ELSE RoundTie(FloatMul(FloatDiv(n, d), 100), 100 * n, d, (10000 * n) \div d)
\* by_type.get(t, 0)
by_type(rs, t) == Cardinality({i \in DOMAIN rs : get_match_type(rs[i]) = t})
\* The summary without its timestamp.
calculate_summary(rs) ==
    LET total == Len(rs)
        tp == by_type(rs, "exact") + by_type(rs, "partial") + by_type(rs, "no_overlap")
        tn == by_type(rs, "true_negative")
    IN [total |-> total,
        detection_accuracy |-> IF total > 0 THEN Round2(tp + tn, total) ELSE 0,
        true_positives |-> tp,
        true_negatives |-> tn,
        false_positives |-> by_type(rs, "false_positive"),
        missed |-> by_type(rs, "missed"),
        exact |-> by_type(rs, "exact"),
        partial |-> by_type(rs, "partial"),
        no_overlap |-> by_type(rs, "no_overlap")]

\* The results Evaluator.run returns: what the message expects (clean, or
\* flagged with a list of target flags that may be empty) and what the API
\* answered (the error result of line 45-54 is the clean answer).
ExpectedKinds ==
    { [expected_is_flagged |-> FALSE, expected_flags |-> << >>],
      [expected_is_flagged |-> TRUE, expected_flags |-> << >>],
      [expected_is_flagged |-> TRUE, expected_flags |-> << "Rudeness" >>],
      [expected_is_flagged |-> TRUE, expected_flags |-> << "Vagueness", "Rudeness" >>] }
ActualKinds ==
    { [actual_is_flagged |-> FALSE, actual_flags |-> << >>],
      [actual_is_flagged |-> TRUE, actual_flags |-> << >>],
      [actual_is_flagged |-> TRUE, actual_flags |-> << "Rudeness" >>],
      [actual_is_flagged |-> TRUE, actual_flags |-> << "Vagueness" >>],
      [actual_is_flagged |-> TRUE, actual_flags |-> << "Rudeness", "Vagueness" >>] }
EvaluatorResult(i, e, a) ==
    [id |-> i, expected_flags |-> e.expected_flags,
     expected_is_flagged |-> e.expected_is_flagged,
     actual_flags |-> a.actual_flags, actual_is_flagged |-> a.actual_is_flagged,
     match_type |-> Absent]
NoSummary == [total |-> 0, unset |-> TRUE]

SummaryInit ==
    /\ \E n \in 0..MaxEntries :
        \E es \in [1..n -> ExpectedKinds], as \in [1..n -> ActualKinds] :
            results = [i \in 1..n |-> EvaluatorResult(i, es[i], as[i])]
    /\ pc = "evaluated"
    /\ metrics = NoSummary
    /\ dataset = << >>
    /\ predictions = NoMapping
    /\ max_iter = MAX_ITERATIONS
    /\ evaluate_only = TRUE
    /\ hard_set = << >>
    /\ run_num = 1
    /\ current_prompt = NoPrompt
    /\ prev_pass_rate = 0
    /\ tasks = << >>
    /\ sem = CONCURRENCY
    /\ judge_sem = CONCURRENCY
    /\ scored_errors = {}
    /\ judgments = << >>
    /\ taxonomy = NoTaxonomy
    /\ optimizer_result = NoAnswer
    /\ saved = {}
    /\ last_rate = 0
    /\ log = << >>
    /\ stop_reason = "running"
    /\ crash_phase = "none"

\* evaluate.py main, lines 78-82: every result gets its match type, then the
\* summary is computed.
Summarize ==
    /\ pc = "evaluated"
    /\ pc' = "summarized"
    /\ results' = [i \in DOMAIN results |->
                      [results[i] EXCEPT !.match_type = get_match_type(results[i])]]
    /\ metrics' = calculate_summary(results)
    /\ UNCHANGED << inputs, run_num, current_prompt, prev_pass_rate, tasks, sem,
                    judge_sem, predictions, scored_errors, judgments, taxonomy,
                    optimizer_result, saved, last_rate, log, stop_reason, crash_phase >>

SummaryNext == Summarize
SummarySpec == SummaryInit /\ [][SummaryNext]_vars

\* The six buckets and the condition the specification states for each.
Buckets == {"true_negative", "false_positive", "missed", "exact", "partial", "no_overlap"}
Stated(bucket, r) ==
    LET e == r.expected_is_flagged
        a == r.actual_is_flagged
        both == e /\ a
        common == \E k \in DOMAIN r.expected_flags : HasFlag(r.actual_flags, r.expected_flags[k])
    IN  CASE bucket = "true_negative" -> ~e /\ ~a
          [] bucket = "false_positive" -> ~e /\ a
          [] bucket = "missed" -> e /\ ~a
          [] bucket = "exact" -> both /\ SameFlags(r.expected_flags, r.actual_flags)
          [] bucket = "partial" ->
                both /\ common /\ ~SameFlags(r.expected_flags, r.actual_flags)
          [] bucket = "no_overlap" -> both /\ ~common
          [] OTHER -> FALSE
Summarized == pc = "summarized"

\* C22: get_match_type gives every result one of the six buckets, the one
\* whose stated condition the result meets (the conditions exclude each
\* other, but for two flagged results with no flag at all, which are equal and
\* disjoint and count as exact), and in the summary the six bucket counts add
\* up to total, the number of results.
C22_MatchTypePartition ==
    Summarized =>
        /\ \A i \in DOMAIN results :
                /\ results[i].match_type \in Buckets
                /\ Stated(results[i].match_type, results[i])
                /\ \A b \in Buckets \ {results[i].match_type} :
                        Stated(b, results[i]) =>
                            /\ b = "no_overlap" /\ results[i].match_type = "exact"
                            /\ results[i].expected_flags = << >>
                            /\ results[i].actual_flags = << >>
        /\ metrics.total = Len(results)
        /\ metrics.true_negatives + metrics.false_positives + metrics.missed
            + metrics.exact + metrics.partial + metrics.no_overlap = metrics.total
        /\ metrics.true_positives = metrics.exact + metrics.partial + metrics.no_overlap
        /\ \A b \in Buckets :
                Cardinality({i \in DOMAIN results : results[i].match_type = b})
                    = by_type(results, b)
\* A summary over a partial, a no-overlap and a false-positive result.
C22_Witness ==
    /\ Summarized
    /\ Len(results) = 3
    /\ results[1].match_type = "partial"
    /\ results[2].match_type = "no_overlap"
    /\ results[3].match_type = "false_positive"
    /\ metrics.partial = 1 /\ metrics.no_overlap = 1 /\ metrics.false_positives = 1

\* ---- optimize_prompt without a pattern ----
OptimizerCalls(l, run) == {k \in DOMAIN l : l[k] = Ev("optimizer_llm", run)}

\* C23: when the taxonomy handed to optimize_prompt has no pattern, the call
\* returns its current_prompt argument (base_prompt of the loop) as it is and
\* asks no model: no optimizer call is logged, no answer is stored, the
\* permit of the judge semaphore is free and the loop is at its head again.
C23_EmptyTaxonomyReturnsArgument ==
    [][(pc = "taxonomizing" /\ pc' # "crashed" /\ taxonomy'.patterns = << >>) =>
            /\ current_prompt' = Str(OrDefault(current_prompt))
            /\ OptimizerCalls(log', run_num) = {}
            /\ optimizer_result' = NoAnswer
            /\ judge_sem' = CONCURRENCY
            /\ pc' = "loop_head"]_vars
\* Run 2 ran on a revised prompt, its taxonomy came back without a pattern and
\* the revised prompt is still the current one.
C23_Witness ==
    /\ pc = "loop_head"
    /\ run_num = 3
    /\ taxonomy = [patterns |-> << >>]
    /\ judgments # << >>
    /\ current_prompt = Str(RevisedPrompt)
    /\ log[Len(log)] = Ev("optimize", 2)
    /\ OptimizerCalls(log, 2) = {}

\* ---- build_taxonomy as a function of the judgments ----
\* Mutant: the taxonomy model is asked even when there is no judgment.
NeedsTaxonomyCallAlways(js) == TRUE
\* build_taxonomy, lines 233-234: `if not judgments: return {"patterns": []}`
NeedsTaxonomyCall(js) == js # << >>

\* The failed results the judgments come from: a missed flag, a flag on a
\* clean message, one flag of two.
FailureKinds ==
    { [ground_truth_flags |-> << "Rudeness" >>, predicted_flags |-> << >>],
      [ground_truth_flags |-> << >>, predicted_flags |-> << "Rudeness" >>],
      [ground_truth_flags |-> << "Vagueness", "Rudeness" >>,
       predicted_flags |-> << "Rudeness" >>] }
FailureOf(i, kind) ==
    [id |-> i, message |-> i, ground_truth_flags |-> kind.ground_truth_flags,
     predicted_flags |-> kind.predicted_flags, passed |-> FALSE, error |-> None]
JudgmentLists ==
    UNION {[1..n -> FailureKinds] : n \in 0..MaxEntries}

TaxonomyInit ==
    /\ \E kinds \in JudgmentLists :
            judgments = [i \in DOMAIN kinds |-> judge_single(FailureOf(i, kinds[i]))]
    /\ pc = "taxonomy_input"
    /\ taxonomy = NoTaxonomy
    /\ judge_sem = CONCURRENCY
    /\ log = << >>
    /\ max_iter = MAX_ITERATIONS
    /\ evaluate_only = FALSE
    /\ dataset = << >>
    /\ hard_set = << >>
    /\ run_num = 1
    /\ current_prompt = NoPrompt
    /\ prev_pass_rate = 0
    /\ tasks = << >>
    /\ sem = CONCURRENCY
    /\ predictions = NoMapping
    /\ results = << >>
    /\ metrics = NoMetrics
    /\ scored_errors = {}
    /\ optimizer_result = NoAnswer
    /\ saved = {}
    /\ last_rate = 0
    /\ stop_reason = "running"
    /\ crash_phase = "none"

TaxonomyFrame ==
    UNCHANGED << inputs, run_num, current_prompt, prev_pass_rate, tasks, sem,
                 predictions, results, metrics, scored_errors, judgments,
                 optimizer_result, saved, last_rate, stop_reason >>

\* build_taxonomy up to its await: the early return, or the entry of judge_llm.
BuildTaxonomy ==
    /\ pc = "taxonomy_input"
    /\ IF ~NeedsTaxonomyCall(judgments) THEN
            /\ taxonomy' = [patterns |-> << >>]
            /\ pc' = "taxonomy_built"
            /\ UNCHANGED << judge_sem, log >>
       ELSE /\ CanAcquire(judge_sem)
            /\ judge_sem' = judge_sem - 1
            /\ log' = Append(log, Ev("taxonomy_llm", run_num))
            /\ pc' = "taxonomizing"
            /\ UNCHANGED taxonomy
    /\ UNCHANGED crash_phase
    /\ TaxonomyFrame

\* Lines 237-242: judge_llm returned the parsed answer.
TaxonomyCallReturns(answer) ==
    /\ pc = "taxonomizing"
    /\ taxonomy' = answer
    /\ judge_sem' = judge_sem + 1
    /\ pc' = "taxonomy_built"
    /\ UNCHANGED << log, crash_phase >>
    /\ TaxonomyFrame

\* The call or json.loads raises inside judge_llm.
TaxonomyCallRaises ==
    /\ pc = "taxonomizing"
    /\ judge_sem' = judge_sem + 1
    /\ pc' = "crashed"
    /\ crash_phase' = pc
    /\ UNCHANGED << log, taxonomy >>
    /\ TaxonomyFrame

TaxonomyNext ==
    \/ BuildTaxonomy
    \/ \E answer \in TaxonomyAnswers(judgments) : TaxonomyCallReturns(answer)
    \/ TaxonomyCallRaises

TaxonomySpec == TaxonomyInit /\ [][TaxonomyNext]_vars

\* C24: for an empty judgment list build_taxonomy returns the empty pattern
\* list and asks no model: the call is never inside judge_llm, nothing is
\* logged as a model call and every judge permit stays free.
C24_EmptyJudgmentsNoCall ==
    judgments = << >> =>
        /\ pc \in {"taxonomy_input", "taxonomy_built"}
        /\ log = << >>
        /\ judge_sem = CONCURRENCY
        /\ pc = "taxonomy_built" => taxonomy = [patterns |-> << >>]
\* build_taxonomy has returned for the empty list.
C24_Witness ==
    /\ judgments = << >>
    /\ pc = "taxonomy_built"
    /\ taxonomy = [patterns |-> << >>]
    /\ log = << >>

\* ---- the end of the process ----
\* Lines 441-459: run_training returns after every `break` and after the last
\* iteration, asyncio.run returns and the interpreter exits with status 0;
\* only an exception that leaves run_training ends the process with status 1.
ExitCode == IF pc = "crashed" THEN 1 ELSE 0

\* C25: a run that run_training has left by one of its breaks ends the process
\* with a non-zero status exactly when the break was the abort on errored
\* predictions, and with status 0 when it was one of the stop conditions.
C25_AbortExitsNonZero ==
    pc = "complete" => (ExitCode # 0 <=> stop_reason = "pipeline_error")

\* ---- responses with an error status ----
\* C26: whenever a request is answered with a status other than 200, the
\* prediction evaluate_single returns has no predicted flag and an error that
\* the check of run_training, `p.get("error")`, counts: a non-empty message.
C26_ErrorStatusCountsAsErrored ==
    [][\A i \in DOMAIN tasks : \A resp \in Responses :
            (Respond(i, resp) /\ resp.status # 200) =>
                /\ tasks'[i].out.predicted_flags = << >>
                /\ tasks'[i].out.error # None
                /\ HasError(tasks'[i].out)]_vars

\* ---- judge_failures as a function of the results ----
\* The results judge_failures is applied to: passed, failed, failed with a
\* pipeline error, failed with an empty error text, errored with nothing
\* expected (passed is true).
JudgedKinds ==
    { [ground_truth_flags |-> << "Rudeness" >>, predicted_flags |-> << "Rudeness" >>,
       error |-> None],
      [ground_truth_flags |-> << "Rudeness" >>, predicted_flags |-> << >>, error |-> None],
      [ground_truth_flags |-> << >>, predicted_flags |-> << "Rudeness" >>, error |-> None],
      [ground_truth_flags |-> << "Rudeness" >>, predicted_flags |-> << >>,
       error |-> "HTTP 500"],
      [ground_truth_flags |-> << "Rudeness" >>, predicted_flags |-> << >>, error |-> ""],
      [ground_truth_flags |-> << >>, predicted_flags |-> << >>, error |-> "HTTP 500"] }
JudgedEntry(i, kind) ==
    [id |-> i, message |-> i, ground_truth_flags |-> kind.ground_truth_flags,
     case_type |-> Absent]
JudgedPredictions(kinds) ==
    [i \in DOMAIN kinds |->
        [id |-> i, predicted_flags |-> kinds[i].predicted_flags, error |-> kinds[i].error]]

JudgeInit ==
    /\ \E n \in 0..MaxEntries : \E kinds \in [1..n -> JudgedKinds] :
            /\ dataset = [i \in 1..n |-> JudgedEntry(i, kinds[i])]
            /\ predictions = JudgedPredictions(kinds)
            /\ results = [i \in 1..n |->
                            ScoredResult(JudgedEntry(i, kinds[i]), JudgedPredictions(kinds))]
    /\ pc = "judge_input"
    /\ tasks = << >>
    /\ judgments = << >>
    /\ judge_sem = CONCURRENCY
    /\ metrics = NoMetrics
    /\ max_iter = MAX_ITERATIONS
    /\ evaluate_only = FALSE
    /\ hard_set = << >>
    /\ run_num = 1
    /\ current_prompt = NoPrompt
    /\ prev_pass_rate = 0
    /\ sem = CONCURRENCY
    /\ scored_errors = {}
    /\ taxonomy = NoTaxonomy
    /\ optimizer_result = NoAnswer
    /\ saved = {}
    /\ last_rate = 0
    /\ log = << >>
    /\ stop_reason = "running"
    /\ crash_phase = "none"

\* Lines 219-226: the failures are selected; without one the call returns [],
\* otherwise one judge_single coroutine is created per failure and gathered.
JudgeStart ==
    /\ pc = "judge_input"
    /\ LET failures == failures_of(results)
       IN  IF failures = << >> THEN
                /\ pc' = "judged"
                /\ UNCHANGED tasks
           ELSE /\ pc' = "judging"
                /\ tasks' = NewTasks(failures)
    /\ UNCHANGED << inputs, run_num, current_prompt, prev_pass_rate, sem, judge_sem,
                    locals, saved, last_rate, log, stop_reason, crash_phase >>

\* Lines 226-228: gather returned, the judgments are returned as a list.
JudgeGather ==
    /\ pc = "judging"
    /\ AllDone(tasks)
    /\ judgments' = [i \in DOMAIN tasks |-> tasks[i].out]
    /\ pc' = "judged"
    /\ UNCHANGED << inputs, run_num, current_prompt, prev_pass_rate, tasks, sem,
                    judge_sem, predictions, results, metrics, scored_errors, taxonomy,
                    optimizer_result, saved, last_rate, log, stop_reason, crash_phase >>

JudgeNext ==
    \/ JudgeStart
    \/ \E i \in DOMAIN tasks : JudgeAcquire(i)
    \/ \E i \in DOMAIN tasks : JudgeReturns(i)
    \/ \E i \in DOMAIN tasks : JudgeRaises(i)
    \/ JudgeFailuresRaises
    \/ \E i \in DOMAIN tasks : Cancel(i)
    \/ JudgeGather

JudgeSpec == JudgeInit /\ [][JudgeNext]_vars

\* The results that are to be judged: not passed, and no error (None, or the
\* empty text that `not r.get("error")` takes for none).
ToJudge == {i \in DOMAIN results : ~results[i].passed /\ results[i].error \in {None, ""}}
JudgeCallsFor(id) == {k \in DOMAIN tasks : tasks[k].id = id}
JudgmentOf(r) ==
    [id |-> r.id, message |-> r.message, ground_truth_flags |-> r.ground_truth_flags,
     predicted_flags |-> r.predicted_flags]

\* C27: judge_failures creates exactly one judge call for every result that
\* did not pass and has no error, none for a passed or an errored result, and
\* returns one judgment per judged result, which carries the id, the message,
\* the ground-truth flags and the predicted flags of that result.
C27_OneJudgmentPerFailure ==
    /\ pc \in {"judging", "judged", "crashed"} =>
            \A i \in DOMAIN results :
                Cardinality(JudgeCallsFor(results[i].id)) = IF i \in ToJudge THEN 1 ELSE 0
    /\ pc = "judged" =>
            /\ AllDone(tasks)
            /\ Len(judgments) = Cardinality(ToJudge)
            /\ \A i \in ToJudge :
                    Cardinality({k \in DOMAIN judgments :
                                    judgments[k] = JudgmentOf(results[i])}) = 1
            /\ \A k \in DOMAIN judgments :
                    \E i \in ToJudge : judgments[k].id = results[i].id
\* Of three results one passed, one failed on a pipeline error and one failed
\* without an error: one judgment came back.
C27_Witness ==
    /\ pc = "judged"
    /\ Len(results) = 3
    /\ results[1].passed
    /\ ~results[2].passed /\ results[2].error = "HTTP 500"
    /\ ~results[3].passed /\ results[3].error = None
    /\ judgments = << JudgmentOf(results[3]) >>
    /\ judge_sem = CONCURRENCY

\* ---- the barrier of a fan-out ----
\* A request has completed when it returned (with a prediction, a judgment or
\* an error value) or raised; a cancelled one never completed.
Completed(ts) == \A i \in DOMAIN ts : ts[i].st \in {"done", "failed"}
RunEnded == pc \in {"complete", "crashed"}

\* C28: the step after an evaluation batch (scoring) and the step after the
\* judging batch (the taxonomy) begin only when every request of the batch has
\* completed, and when the run has ended, by a break, after the last run or
\* on an exception, no request of its last batch is left uncompleted.
C28_AllRequestsCompleteAtBarrier ==
    /\ [][(pc \in EvalPhases \cup {"judging"} /\ pc' # pc /\ pc' # "crashed") =>
                Completed(tasks)]_vars
    /\ [](RunEnded => Completed(tasks))

\* ---- evaluate_all as one fan-out ----
\* Lines 95-100: the semaphore is created and one coroutine per entry is
\* handed to gather.
FanOutInit ==
    /\ \E n \in 0..MaxEntries : dataset = load_dataset(n)
    /\ pc = "evaluating"
    /\ tasks = NewTasks(dataset)
    /\ sem = CONCURRENCY
    /\ predictions = NoMapping
    /\ current_prompt \in {NoPrompt, Str(RevisedPrompt)}
    /\ max_iter = MAX_ITERATIONS
    /\ evaluate_only = TRUE
    /\ hard_set = << >>
    /\ run_num = 1
    /\ prev_pass_rate = 0
    /\ judge_sem = CONCURRENCY
    /\ results = << >>
    /\ metrics = NoMetrics
    /\ scored_errors = {}
    /\ judgments = << >>
    /\ taxonomy = NoTaxonomy
    /\ optimizer_result = NoAnswer
    /\ saved = {}
    /\ last_rate = 0
    /\ log = << >>
    /\ stop_reason = "running"
    /\ crash_phase = "none"

\* Lines 101-102: gather returned, the mapping by id is built and returned.
EvaluateAllReturns ==
    /\ pc = "evaluating"
    /\ AllDone(tasks)
    /\ predictions' = Mapping(tasks)
    /\ pc' = "evaluated"
    /\ UNCHANGED << inputs, run_num, current_prompt, prev_pass_rate, tasks, sem,
                    judge_sem, results, metrics, scored_errors, judgments, taxonomy,
                    optimizer_result, saved, last_rate, log, stop_reason, crash_phase >>

\* A request that was sent is answered or raises.
Completes(i) ==
    \/ \E resp \in Responses : Respond(i, resp)
    \/ RequestRaises(i)

FanOutNext ==
    \/ \E i \in DOMAIN tasks : Acquire(i)
    \/ \E i \in DOMAIN tasks : \E resp \in Responses : Respond(i, resp)
    \/ \E i \in DOMAIN tasks : RequestRaises(i)
    \/ EvaluateAllRaises
    \/ \E i \in DOMAIN tasks : Cancel(i)
    \/ EvaluateAllReturns

FanOutSpec == FanOutInit /\ [][FanOutNext]_vars

\* The event loop runs every coroutine that can run; the waiters of an
\* asyncio.Semaphore are woken in the order they arrived, so a waiter is not
\* overtaken for ever; every request that was sent is answered or raises
\* (the timeout of 60 s).
FairFanOutSpec ==
    /\ FanOutSpec
    /\ \A i \in 1..MaxEntries : SF_vars(i \in DOMAIN tasks /\ Acquire(i))
    /\ \A i \in 1..MaxEntries : WF_vars(i \in DOMAIN tasks /\ Completes(i))
    /\ \A i \in 1..MaxEntries : WF_vars(i \in DOMAIN tasks /\ Cancel(i))
    /\ WF_vars(EvaluateAllReturns)
    /\ WF_vars(EvaluateAllRaises)

\* C29: the permits taken are those of the requests in flight (a permit is
\* given back when its request returns or raises), every item of the batch
\* eventually holds a permit and completes, and once the batch has fanned in
\* all CONCURRENCY permits are free.
C29_EveryItemGetsASlotAndCompletes ==
    /\ [](sem = CONCURRENCY - Cardinality(InFlight(tasks)))
    /\ \A i \in 1..MaxEntries :
            (i \in DOMAIN tasks /\ tasks[i].st = "waiting")
                ~> (i \in DOMAIN tasks /\ tasks[i].st \in {"done", "failed"})
    /\ [](pc \in {"evaluated", "crashed"} => sem = CONCURRENCY)

\* ---- the mapping evaluate_all returns ----
DatasetIds == {dataset[i].id : i \in DOMAIN dataset}
\* The request of an entry is sent once: a coroutine leaves the wait for a
\* slot once and a returned one is not run again.
SentOnce ==
    \A i \in DOMAIN tasks :
        /\ tasks[i].st # "waiting" => tasks'[i].st # "waiting"
        /\ tasks[i].st \in {"done", "failed", "cancelled"} => tasks'[i] = tasks[i]

\* C30: a batch has one request per dataset entry, each sent once, and the
\* mapping evaluate_all returns holds, for every dataset id and for no other
\* key, the prediction that the request of that entry returned; this is so
\* in whatever order the requests were sent and answered.
C30_OnePredictionPerId ==
    /\ [](/\ Len(tasks) = Len(dataset)
          /\ \A i \in DOMAIN dataset : tasks[i].id = dataset[i].id
          /\ pc = "evaluated" =>
                /\ DOMAIN predictions = DatasetIds
                /\ \A i \in DOMAIN dataset :
                        /\ predictions[dataset[i].id] = tasks[i].out
                        /\ predictions[dataset[i].id].id = dataset[i].id)
    /\ [][SentOnce]_vars
\* Three entries, answered with a flag, with no flag and with HTTP 500: the
\* mapping holds the three predictions under their ids.
C30_Witness ==
    /\ pc = "evaluated"
    /\ Len(dataset) = 3
    /\ DOMAIN predictions = {1, 2, 3}
    /\ predictions[1].predicted_flags = << "Rudeness" >>
    /\ predictions[2].predicted_flags = << >> /\ predictions[2].error = None
    /\ predictions[3].error = "HTTP 500"

\* ---- the taxonomy handed to the orchestrator ----
SortedByCountDescending(patterns) ==
    \A k \in 1..(Len(patterns) - 1) : patterns[k].count >= patterns[k + 1].count
JudgmentIds == {judgments[k].id : k \in DOMAIN judgments}
MAX_EXAMPLE_IDS == 3

\* C31: the taxonomy build_taxonomy has returned lists its patterns by
\* descending count, and every pattern has at most 3 example ids, each the id
\* of one of the judgments handed in, whatever the model answered.
C31_TaxonomyWellFormed ==
    pc = "taxonomy_built" =>
        /\ SortedByCountDescending(taxonomy.patterns)
        /\ \A k \in DOMAIN taxonomy.patterns :
                /\ Len(taxonomy.patterns[k].example_ids) <= MAX_EXAMPLE_IDS
                /\ ToSet(taxonomy.patterns[k].example_ids) \subseteq JudgmentIds

\* ---- the request optimize_prompt builds ----
\* Longest taxonomy of the model: one pattern more than the summary takes.
MaxPatterns == 11
\* patterns[:10], patterns[:5], example_ids[:2]
SUMMARY_PATTERNS == 10
EXAMPLE_PATTERNS == 5
EXAMPLES_PER_PATTERN == 2

\* seq[:n]
Take(seq, n) == SubSeq(seq, 1, IF Len(seq) < n THEN Len(seq) ELSE n)

\* Lines 295-298: one summary line per pattern of patterns[:10].
taxonomy_summary(patterns) == Take(patterns, SUMMARY_PATTERNS)

\* Lines 304-306: `next((j for j in judgments if j["id"] == eid), None)`, kept
\* when it is found.
FirstJudgment(js, eid) ==
    js[CHOOSE k \in DOMAIN js :
            js[k].id = eid /\ \A m \in DOMAIN js : js[m].id = eid => k <= m]
PatternExamples(p, js) ==
    LET found == SelectSeq(Take(p.example_ids, EXAMPLES_PER_PATTERN),
                           LAMBDA eid : \E k \in DOMAIN js : js[k].id = eid)
    IN  [i \in DOMAIN found |-> [pattern |-> p.pattern, judgment |-> FirstJudgment(js, found[i])]]
RECURSIVE ExamplesOf(_, _)
ExamplesOf(ps, js) ==
    IF ps = << >> THEN << >>
    ELSE PatternExamples(Head(ps), js) \o ExamplesOf(Tail(ps), js)
\* Lines 301-313
example_lines(patterns, js) == ExamplesOf(Take(patterns, EXAMPLE_PATTERNS), js)

\* The taxonomies optimize_prompt is applied to: n patterns whose counts fall,
\* rise or stay equal along the list, each with the same list of example ids.
CountShapes == {"descending", "ascending", "equal"}
PatternCount(shape, k, n) ==
    CASE shape = "descending" -> n - k + 1
      [] shape = "ascending" -> k
      [] OTHER -> 1
ExampleIdLists == { << >>, << 1 >>, << 2, 1, 3 >>, << 999, 1 >> }
TaxonomyOf(n, shape, ids) ==
    [patterns |-> [k \in 1..n |-> [pattern |-> k, count |-> PatternCount(shape, k, n),
                                   example_ids |-> ids]]]

RequestInit ==
    /\ \E n \in 0..MaxPatterns : \E shape \in CountShapes : \E ids \in ExampleIdLists :
            taxonomy = TaxonomyOf(n, shape, ids)
    /\ \E kinds \in JudgmentLists :
            judgments = [i \in DOMAIN kinds |-> judge_single(FailureOf(i, kinds[i]))]
    /\ current_prompt \in {Str(get_default_prompt), Str(RevisedPrompt)}
    /\ pc = "optimize_input"
    /\ tasks = << >>
    /\ judge_sem = CONCURRENCY
    /\ log = << >>
    /\ max_iter = MAX_ITERATIONS
    /\ evaluate_only = FALSE
    /\ dataset = << >>
    /\ hard_set = << >>
    /\ run_num = 1
    /\ prev_pass_rate = 0
    /\ sem = CONCURRENCY
    /\ predictions = NoMapping
    /\ results = << >>
    /\ metrics = NoMetrics
    /\ scored_errors = {}
    /\ optimizer_result = NoAnswer
    /\ saved = {}
    /\ last_rate = 0
    /\ stop_reason = "running"
    /\ crash_phase = "none"

\* optimize_prompt up to its await: the early return, or the request is built
\* and judge_llm is entered with it.
BuildRequest ==
    /\ pc = "optimize_input"
    /\ IF ~HasPatterns(taxonomy) THEN
            /\ pc' = "optimized"
            /\ UNCHANGED << tasks, judge_sem >>
       ELSE /\ CanAcquire(judge_sem)
            /\ judge_sem' = judge_sem - 1
            /\ tasks' = << [st |-> "inflight", id |-> 0,
                            taxonomy_summary |-> taxonomy_summary(taxonomy.patterns),
                            example_failures |->
                                example_lines(taxonomy.patterns, judgments)] >>
            /\ pc' = "optimizing"
    /\ UNCHANGED << inputs, run_num, current_prompt, prev_pass_rate, sem, locals,
                    saved, last_rate, log, stop_reason, crash_phase >>

\* Lines 330-335: the answer arrived; the prompt it holds, or the argument.
RequestReturns(answer) ==
    /\ pc = "optimizing"
    /\ optimizer_result' = answer
    /\ current_prompt' = AcceptedPrompt(answer, current_prompt.text)
    /\ judge_sem' = judge_sem + 1
    /\ tasks' = [tasks EXCEPT ![1].st = "done"]
    /\ pc' = "optimized"
    /\ UNCHANGED << inputs, run_num, prev_pass_rate, sem, predictions, results,
                    metrics, scored_errors, judgments, taxonomy, saved, last_rate,
                    log, stop_reason, crash_phase >>

RequestNext ==
    \/ BuildRequest
    \/ \E answer \in OptimizerAnswers : RequestReturns(answer)

RequestSpec == RequestInit /\ [][RequestNext]_vars

Listed(request, k) == \E i \in DOMAIN request : request[i].pattern = taxonomy.patterns[k].pattern
\* The patterns in `request` are patterns of highest count: no pattern left
\* out has a higher count than one that is in.
OfHighestCount(request) ==
    \A k, m \in DOMAIN taxonomy.patterns :
        (Listed(request, k) /\ ~Listed(request, m)) =>
            taxonomy.patterns[k].count >= taxonomy.patterns[m].count

\* C32: the request to the optimizer model lists at most 10 patterns, those of
\* highest count, and at most 2 example judgments for each of the 5 patterns
\* of highest count, each a judgment whose id that pattern lists.
C32_RequestIsBounded ==
    pc = "optimizing" =>
        LET summary == tasks[1].taxonomy_summary
            examples == tasks[1].example_failures
        IN  /\ Len(summary) <= SUMMARY_PATTERNS
            /\ OfHighestCount(summary)
            /\ Len(examples) <= EXAMPLE_PATTERNS * EXAMPLES_PER_PATTERN
            /\ Cardinality({examples[i].pattern : i \in DOMAIN examples}) <= EXAMPLE_PATTERNS
            /\ OfHighestCount(examples)
            /\ \A i \in DOMAIN examples :
                    /\ Cardinality({m \in DOMAIN examples :
                                        examples[m].pattern = examples[i].pattern})
                            <= EXAMPLES_PER_PATTERN
                    /\ \E k \in DOMAIN taxonomy.patterns :
                            /\ taxonomy.patterns[k].pattern = examples[i].pattern
                            /\ HasFlag(taxonomy.patterns[k].example_ids,
                                       examples[i].judgment.id)
                    /\ \E k \in DOMAIN judgments : judgments[k] = examples[i].judgment

\* ---- the artifacts of a run ----
\* The files run_training writes for a run, by what they hold.
ScoringArtifacts == {"results.json", "metrics.json", "prompt.txt"}
HardSetArtifacts == {"hard_set_results.json", "hard_set_metrics.json"}
JudgingArtifacts == {"failures.json", "taxonomy.json"}
\* prompt.txt is written before the optimizer runs and holds the prompt the
\* run used; a file for the optimizer's output would be another one.
NextPromptSaved(run) ==
    \E f \in FilesOfRun(run) :
        f[2] \notin ScoringArtifacts \cup HardSetArtifacts \cup JudgingArtifacts
Optimized(run) == pc = "loop_head" /\ run_num = run + 1

\* C33: a run that was scored has its results, metrics and prompt saved by
\* then, and a run whose optimize step has completed also has its judgments,
\* its taxonomy and the optimizer's output saved among its artifacts.
C33_ArtifactsOfEveryRun ==
    /\ "score" \in EventsOfRun(run_num) => RunFiles(run_num, ScoringArtifacts) \subseteq saved
    /\ \A run \in 1..MAX_ITERATIONS :
            Optimized(run) =>
                /\ RunFiles(run, ScoringArtifacts \cup JudgingArtifacts) \subseteq saved
                /\ NextPromptSaved(run)

\* ---- what the stop decisions read ----
\* The stop decision as a function of the mode, the run number, whether the
\* main batch holds an error, the overall pass rates of this run and of the
\* run before, and whether there is a failure to judge.
StopDecision(mode, run, errored, rate, prev, nothing_to_judge) ==
    IF errored THEN "pipeline_error"
    ELSE IF mode THEN "evaluate_only"
    ELSE IF NoImprovement(run, rate, prev) THEN "no_improvement"
    ELSE IF rate = 1000 THEN "converged"
    ELSE IF nothing_to_judge THEN "no_judgments"
    ELSE "running"
\* A step that takes the stop decision of a run: the fan-in of the main batch
\* when it aborts or when there is no hard set, the fan-in of the hard set
\* otherwise.
DecisionStep ==
    /\ pc \in EvalPhases
    /\ pc' \notin {"evaluating", "hard_evaluating", "crashed"}
MainMetrics == score(dataset, predictions).metrics

\* C34: every stop decision is the one that follows from the mode, the run
\* number, the errors of the main batch, the overall pass rate of the main
\* dataset in this run and in the run before and the absence of a failure to
\* judge; the hard set, its predictions and the per-type and per-flag figures
\* do not enter, and the metrics of a scored run are those of the main dataset
\* from its scoring to its end.
C34_StopDecisionReadsMainRateOnly ==
    /\ [][/\ DecisionStep =>
                /\ stop_reason' = StopDecision(evaluate_only, run_num,
                                               Errored(predictions') # {},
                                               metrics'.overall_pass_rate,
                                               prev_pass_rate,
                                               \A i \in DOMAIN results' : results'[i].passed)
                /\ pc' = (IF stop_reason' = "running" THEN "judging" ELSE "complete")
                /\ Errored(predictions') = {} => "score" \in EventsOfRun(run_num)'
          /\ (pc = "loop_head" /\ pc' = "complete") => run_num > max_iter
          /\ pc = "hard_evaluating" => UNCHANGED << predictions, results, metrics >>]_vars
    /\ []("score" \in EventsOfRun(run_num) => metrics = MainMetrics)
\* A run with a hard set whose request failed with HTTP 500 and was scored all
\* the same has stopped as converged on the main dataset's rate.
C34_Witness ==
    /\ pc = "complete"
    /\ hard_set # << >>
    /\ scored_errors # {}
    /\ stop_reason = "converged"
    /\ metrics.total = Len(dataset)
    /\ Len(dataset) = 3

\* ---- a failing model call ----
LlmPhases == {"judging", "taxonomizing", "optimizing"}
\* A step in which the failure of a judge, taxonomy or optimizer call reaches
\* run_training.
LlmCallFails == pc \in LlmPhases /\ stop_reason' = "exception" /\ stop_reason # "exception"
\* The run-level state that a failure leaves as it is.
RunState ==
    << current_prompt, saved, run_num, log, judgments, taxonomy, optimizer_result >>

\* C35: when a judge, taxonomy or optimizer call fails (the call raises or
\* its answer is not JSON), the run ends there: the artifact of the phase is
\* not written for the run, the current prompt, the run number and the step
\* log stay as they are, no later phase is entered, the failed call is not
\* made again, and after the end of the run only the pending judge calls of
\* the batch still move: they are sent, answered, fail or are cancelled.
C35_LlmFailureIsFatal ==
    /\ [][LlmCallFails =>
            /\ pc' = "crashed"
            /\ crash_phase' = pc
            /\ UNCHANGED RunState]_vars
    /\ [][(pc = "judging" /\ Failed(tasks) # {}) =>
            /\ pc' \in {"judging", "crashed"}
            /\ Failed(tasks) \subseteq Failed(tasks')
            /\ UNCHANGED RunState]_vars
    /\ [][pc = "crashed" =>
            /\ UNCHANGED << pc, crash_phase, stop_reason, RunState >>
            /\ Failed(tasks) \subseteq Failed(tasks')]_vars
    /\ [](pc = "crashed" /\ crash_phase = "judging" =>
            /\ Failed(tasks) # {}
            /\ RunFiles(run_num, JudgingArtifacts) \cap saved = {}
            /\ judgments = << >>)
    /\ [](pc = "crashed" /\ crash_phase = "taxonomizing" =>
            /\ << run_num, "taxonomy.json" >> \notin saved
            /\ taxonomy = NoTaxonomy)
    /\ [](pc = "crashed" /\ crash_phase = "optimizing" => optimizer_result = NoAnswer)
\* The optimizer call of run 2 failed: the run has ended with the prompt of
\* run 2 still current and the judgments and the taxonomy of run 2 saved.
C35_Witness ==
    /\ pc = "crashed"
    /\ crash_phase = "optimizing"
    /\ run_num = 2
    /\ current_prompt = Str(RevisedPrompt)
    /\ RunFiles(2, JudgingArtifacts) \subseteq saved
    /\ log[Len(log)] = Ev("optimizer_llm", 2)

\* ---- the iteration budget ----
\* The number of runs the command line asks for: the --iterations value when
\* it is given, the configured default otherwise.
RequestedIterations(override) == IF override.given THEN override.value ELSE MAX_ITERATIONS
EvaluatedRuns == {log[k].run : k \in {j \in DOMAIN log : log[j].ev = "evaluate"}}

\* C36: whatever integer --iterations gives, no run beyond that number (beyond
\* 5 without the option) evaluates the main dataset: in every execution
\* started with an override the evaluated run numbers are at most the
\* requested number.
C36_AtMostRequestedIterations ==
    \A override \in Overrides :
        max_iter = MaxIter(override) =>
            \A run \in EvaluatedRuns : run <= RequestedIterations(override)

\* ---- the context sent with an entry ----
ContextMessages == [text : {"hello", "ok"}, user : {"U1", "U2"}]
Contexts == UNION {[1..n -> ContextMessages] : n \in 0..MaxContext}
ContextEntry(context) ==
    [id |-> 1, message |-> 1, ground_truth_flags |-> << >>, case_type |-> "true_negative",
     context |-> context]

\* Lines 95-100 on a dataset of two entries: one with a context, one without
\* the key.
TimestampInit ==
    /\ \E context \in Contexts : dataset = << ContextEntry(context), Entry(2) >>
    /\ pc = "evaluating"
    /\ tasks = NewTasks(dataset)
    /\ sem = CONCURRENCY
    /\ max_iter = MAX_ITERATIONS
    /\ evaluate_only = TRUE
    /\ hard_set = << >>
    /\ run_num = 1
    /\ current_prompt = NoPrompt
    /\ prev_pass_rate = 0
    /\ judge_sem = CONCURRENCY
    /\ predictions = NoMapping
    /\ results = << >>
    /\ metrics = NoMetrics
    /\ scored_errors = {}
    /\ judgments = << >>
    /\ taxonomy = NoTaxonomy
    /\ optimizer_result = NoAnswer
    /\ saved = {}
    /\ last_rate = 0
    /\ log = << >>
    /\ stop_reason = "running"
    /\ crash_phase = "none"

\* evaluate_all over these entries: every request holds a permit when its
\* payload is built (line 62 before line 63).
TimestampSpec == TimestampInit /\ [][FanOutNext]_vars

\* The requests whose payload was built.
Sent(ts) == {i \in DOMAIN ts : ts[i].st \in {"inflight", "done", "failed"}}
\* C37: the list add_synthetic_timestamps returns is as long as the context,
\* has the text and the user of the context at every position, and its ts
\* values grow strictly with the position, as strings and as the numbers they
\* spell; the entry's own context is as it was, without any ts, and the
\* dataset is never written.
C37_TimestampsIncrease ==
    /\ [](\A i \in Sent(tasks) :
            LET context == Context(dataset[i])
                sent == tasks[i].context
            IN  /\ Len(sent) = Len(context)
                /\ \A k \in DOMAIN context :
                        /\ sent[k].text = context[k].text
                        /\ sent[k].user = context[k].user
                        /\ DOMAIN context[k] = {"text", "user"}
                /\ \A k, m \in DOMAIN sent :
                        k < m => /\ StrLess(sent[k].ts, sent[m].ts)
                                 /\ int(sent[k].ts) < int(sent[m].ts))
    /\ [][dataset' = dataset]_vars
\* A context of three messages was stamped 1700000000, 1700000001, 1700000002
\* and its request answered while a permit was taken; the request of the
\* entry without a context was sent with an empty list.
C37_Witness ==
    /\ pc = "evaluating"
    /\ tasks[1].st = "done"
    /\ tasks[2].st = "inflight"
    /\ sem = CONCURRENCY - 1
    /\ tasks[2].context = << >>
    /\ Len(tasks[1].context) = 3
    /\ int(tasks[1].context[1].ts) = BASE_TS
    /\ int(tasks[1].context[3].ts) = BASE_TS + 2
    /\ tasks[1].context[1].user # tasks[1].context[2].user

\* ---- ground truth outside the flag catalog ----
\* Entries whose ground truth is a catalog flag, a name the catalog does not
\* hold, or both; and the flag lists predicted for them.
CatalogEntryKinds ==
    { [ground_truth_flags |-> << "Rudeness" >>, case_type |-> "true_positive"],
      [ground_truth_flags |-> << "Sarcasm" >>, case_type |-> "true_positive"],
      [ground_truth_flags |-> << "Rudeness", "Sarcasm" >>, case_type |-> "true_positive"] }
CatalogPredictionKinds ==
    {[present |-> TRUE, predicted_flags |-> f] :
        f \in { << >>, << "Rudeness" >>, << "Sarcasm" >> }}

CatalogInit ==
    /\ \E n \in 0..MaxEntries :
        \E kinds \in [1..n -> CatalogEntryKinds], preds \in [1..n -> CatalogPredictionKinds] :
            /\ dataset = [i \in 1..n |-> ScoreEntry(i, kinds[i])]
            /\ predictions = PredictionsOf(preds)
    /\ pc = "score_input"
    /\ results = << >>
    /\ metrics = NoMetrics
    /\ max_iter = MAX_ITERATIONS
    /\ evaluate_only = TRUE
    /\ hard_set = << >>
    /\ run_num = 1
    /\ current_prompt = NoPrompt
    /\ prev_pass_rate = 0
    /\ tasks = << >>
    /\ sem = CONCURRENCY
    /\ judge_sem = CONCURRENCY
    /\ scored_errors = {}
    /\ judgments = << >>
    /\ taxonomy = NoTaxonomy
    /\ optimizer_result = NoAnswer
    /\ saved = {}
    /\ last_rate = 0
    /\ log = << >>
    /\ stop_reason = "running"
    /\ crash_phase = "none"

CatalogSpec == CatalogInit /\ [][ScoreNext]_vars

\* The entries whose ground truth names a flag the catalog does not hold.
Defective == {i \in DOMAIN dataset : ~(ToSet(dataset[i].ground_truth_flags) \subseteq FLAGS)}
ScoringCases == DOMAIN dataset \ Defective

\* C38: an entry whose ground truth names a flag outside the catalog is not a
\* scoring case: total and passed count the other entries only, and the
\* unknown flag has no line in the per-flag metrics.
C38_UnknownFlagIsNotScored ==
    Scored =>
        /\ metrics.total = Cardinality(ScoringCases)
        /\ metrics.passed =
                Cardinality({i \in ScoringCases :
                                SameFlags(dataset[i].ground_truth_flags, PredictedList(dataset[i]))})
        /\ \A i \in Defective :
                ToSet(dataset[i].ground_truth_flags) \cap DOMAIN metrics.per_flag \subseteq FLAGS

\* ---- the converged stop on large datasets ----
LargeHalf == 1000
MaxFailed == 2
\* The dataset sizes: the small ones, and the odd sizes on either side of the
\* size at which one failed entry no longer shows in a rate rounded to one
\* decimal (with an odd total no quotient is a tie of the rounding).
LargeSizes == (1..MaxEntries) \cup {2 * LargeHalf - 1, 2 * LargeHalf + 1}
\* A dataset of n one-flag positives whose first `failed` entries get an empty
\* prediction and whose other entries get the right one.
LargeDataset(n) ==
    [i \in 1..n |->
        ScoreEntry(i, [ground_truth_flags |-> << "Rudeness" >>, case_type |-> "true_positive"])]
LargePredictions(n, failed) ==
    [i \in 1..n |->
        [id |-> i,
         predicted_flags |-> IF i <= failed THEN << >> ELSE << "Rudeness" >>,
         error |-> None]]
\* The rates the previous run of the same dataset may have left (line 419).
PreviousRates(n) ==
    {overall_pass_rate(n - g, n) : g \in {f \in 0..MaxFailed : f <= n} \cup {n}}

LargeInit ==
    /\ \E n \in LargeSizes :
        \E failed \in {f \in 0..MaxFailed : f <= n} :
            /\ dataset = LargeDataset(n)
            /\ predictions = LargePredictions(n, failed)
            /\ \/ run_num = 1 /\ prev_pass_rate = 0
               \/ run_num = 2 /\ prev_pass_rate \in PreviousRates(n)
    /\ pc = "score_input"
    /\ results = << >>
    /\ metrics = NoMetrics
    /\ max_iter = MAX_ITERATIONS
    /\ evaluate_only = FALSE
    /\ hard_set = << >>
    /\ current_prompt = NoPrompt
    /\ tasks = << >>
    /\ sem = CONCURRENCY
    /\ judge_sem = CONCURRENCY
    /\ scored_errors = {}
    /\ judgments = << >>
    /\ taxonomy = NoTaxonomy
    /\ optimizer_result = NoAnswer
    /\ saved = {}
    /\ last_rate = 0
    /\ log = << >>
    /\ stop_reason = "running"
    /\ crash_phase = "none"

\* Lines 388-427 of a run without a hard set: score, the results, the metrics
\* and the prompt of the run are saved, then the stop checks.
ScoreAndDecide ==
    /\ pc = "score_input"
    /\ LET scored == score(dataset, predictions) IN
        /\ results' = scored.results
        /\ metrics' = scored.metrics
        /\ scored_errors' = Errored(predictions)
        /\ StopChecks(scored.results, scored.metrics,
                      saved \cup RunFiles(run_num,
                          {"results.json", "metrics.json", "prompt.txt"}),
                      Append(log, Ev("score", run_num)))
    /\ UNCHANGED << inputs, run_num, current_prompt, sem, judge_sem, predictions,
                    taxonomy, optimizer_result, last_rate, crash_phase >>

LargeNext == ScoreAndDecide
LargeSpec == LargeInit /\ [][LargeNext]_vars

\* C39: the loop stops as converged only in a run in which every dataset
\* entry passed (passed = total); a run with a failed entry never does,
\* whatever the size of the dataset.
C39_ConvergedOnlyWhenAllPassed ==
    stop_reason = "converged" =>
        /\ metrics.passed = metrics.total
        /\ \A i \in DOMAIN results : results[i].passed

\* ---- evaluator.py: Evaluator.run ----
MaxMessages == 3
\* The messages of the final dataset: a clean one and a flagged one with its
\* target flag, each with its flag_definitions as step3_messages.py writes
\* them, and a message of a file that lacks the key.
MessageKinds ==
    { [isFlagged |-> FALSE, expected_flags |-> << >>, has_definitions |-> TRUE],
      [isFlagged |-> TRUE, expected_flags |-> << "Rudeness" >>, has_definitions |-> TRUE],
      [isFlagged |-> FALSE, expected_flags |-> << >>, has_definitions |-> FALSE] }
Message(i, kind) ==
    [id |-> i, isFlagged |-> kind.isFlagged, expected_flags |-> kind.expected_flags,
     has_definitions |-> kind.has_definitions]
\* The JSON bodies of an answered call: without keys, and flagged.
ApiBodies ==
    { [has_flags |-> FALSE, flags |-> << >>, has_flagged |-> FALSE, flagged |-> FALSE],
      [has_flags |-> TRUE, flags |-> << "Rudeness" >>, has_flagged |-> TRUE, flagged |-> TRUE] }
\* Lines 11-14
is_exact_match(r) ==
    /\ ToSet(r.expected_flags) = ToSet(r.actual_flags)
    /\ r.expected_is_flagged = r.actual_is_flagged
\* Lines 34-43: the result of an answered call.
success_result(msg, data) ==
    EvaluatorResult(msg.id,
        [expected_is_flagged |-> msg.isFlagged, expected_flags |-> msg.expected_flags],
        [actual_flags |-> IF data.has_flags THEN data.flags ELSE << >>,
         actual_is_flagged |-> IF data.has_flagged THEN data.flagged ELSE FALSE])
\* Lines 45-54: the result of a call whose request, status check or JSON
\* decoding raised.
error_result(msg) ==
    EvaluatorResult(msg.id,
        [expected_is_flagged |-> msg.isFlagged, expected_flags |-> msg.expected_flags],
        [actual_flags |-> << >>, actual_is_flagged |-> FALSE])
\* How a _call_api coroutine ended: with a returned result or with an
\* exception, which `await coro` (line 62) raises again in run.
NoResult == [id |-> 0, unset |-> TRUE]
Unfinished == [raised |-> FALSE, result |-> NoResult]
Returned(r) == [raised |-> FALSE, result |-> r]
Raised == [raised |-> TRUE, result |-> NoResult]
\* Mutant: the exception of the call leaves _call_api.
Reraise(msg) == Raised
\* Line 44, `except Exception`: whatever the request, the status check or the
\* decoding raised, the coroutine returns the error result.
ExceptException(msg) == Returned(error_result(msg))
\* Lines 23-24: `msg["flag_definitions"].items()` stands before the try; a
\* message without the key raises KeyError out of _call_api.
DefinitionsRaise(msg) == ~msg.has_definitions

\* Lines 56-59: one coroutine per message, all waiting for the semaphore; at
\* most one message of the file lacks its flag_definitions.
EvaluatorInit ==
    /\ \E n \in 0..MaxMessages :
        \E kinds \in [1..n -> MessageKinds] :
            /\ Cardinality({i \in 1..n : ~kinds[i].has_definitions}) <= 1
            /\ dataset = [i \in 1..n |-> Message(i, kinds[i])]
            /\ tasks = [i \in 1..n |-> [st |-> "waiting", id |-> i, failed |-> FALSE,
                                        out |-> Unfinished]]
    /\ pc = "running"
    /\ results = << >>
    /\ sem = CONCURRENCY
    /\ metrics = NoSummary
    /\ predictions = NoMapping
    /\ max_iter = MAX_ITERATIONS
    /\ evaluate_only = TRUE
    /\ hard_set = << >>
    /\ run_num = 1
    /\ current_prompt = NoPrompt
    /\ prev_pass_rate = 0
    /\ judge_sem = CONCURRENCY
    /\ scored_errors = {}
    /\ judgments = << >>
    /\ taxonomy = NoTaxonomy
    /\ optimizer_result = NoAnswer
    /\ saved = {}
    /\ last_rate = 0
    /\ log = << >>
    /\ stop_reason = "running"
    /\ crash_phase = "none"

EvaluatorFrame ==
    UNCHANGED << inputs, run_num, current_prompt, prev_pass_rate, judge_sem, predictions,
                 metrics, scored_errors, judgments, taxonomy, optimizer_result, saved,
                 last_rate >>

\* as_completed queues the coroutines that have ended, in the order in which
\* they ended, until run takes their outcome: log is that queue here.
Queued(i) == Append(log, i)
\* The coroutines run while run awaits them and, once run has ended with an
\* exception, until asyncio.run delivers the first cancellation.
CallsScheduled == pc \in {"running", "crashed"} /\ ~Cancelling(tasks)

\* Lines 22-26: `async with semaphore`, the flag list, and the request is
\* sent; for a message without flag_definitions line 23 raises KeyError and
\* the coroutine ends with it, leaving the semaphore.
EvaluatorAcquire(i) ==
    /\ tasks[i].st = "waiting"
    /\ CallsScheduled
    /\ sem > 0
    /\ IF DefinitionsRaise(dataset[i])
       THEN /\ tasks' = [tasks EXCEPT ![i].st = "done", ![i].out = Raised]
            /\ log' = Queued(i)
            /\ sem' = sem
       ELSE /\ tasks' = [tasks EXCEPT ![i].st = "inflight"]
            /\ log' = log
            /\ sem' = sem - 1
    /\ UNCHANGED << pc, results, stop_reason, crash_phase >>
    /\ EvaluatorFrame

\* Lines 26-43: the call is answered; the coroutine returns its result and
\* leaves the semaphore.
ApiAnswers(i, data) ==
    /\ tasks[i].st = "inflight"
    /\ CallsScheduled
    /\ sem' = sem + 1
    /\ tasks' = [tasks EXCEPT ![i].st = "done",
                              ![i].out = Returned(success_result(dataset[i], data))]
    /\ log' = Queued(i)
    /\ UNCHANGED << pc, results, stop_reason, crash_phase >>
    /\ EvaluatorFrame

\* Lines 26-33, 44-54: the request, the status check or the decoding raised;
\* the handler returns the error result and the coroutine leaves the
\* semaphore.
ApiFails(i) ==
    /\ tasks[i].st = "inflight"
    /\ CallsScheduled
    /\ sem' = sem + 1
    /\ tasks' = [tasks EXCEPT ![i].st = "done", ![i].failed = TRUE,
                              ![i].out = ExceptException(dataset[i])]
    /\ log' = Queued(i)
    /\ UNCHANGED << pc, results, stop_reason, crash_phase >>
    /\ EvaluatorFrame

\* Lines 61-62: run resumes and appends the outcomes that as_completed has
\* queued by then, in the order of completion (a coroutine that ended in the
\* last loop iteration is not queued yet); `await coro` raises the exception
\* of a coroutine that ended with one, which leaves run, main and asyncio.run.
RunCollects ==
    /\ pc = "running"
    /\ log # << >>
    /\ \E k \in 1..Len(log) :
        LET raises == tasks[log[k]].out.raised
            taken == IF raises THEN k - 1 ELSE k
        IN  /\ \A p \in 1..(k - 1) : ~tasks[log[p]].out.raised
            /\ results' = results \o [p \in 1..taken |-> tasks[log[p]].out.result]
            /\ tasks' = [i \in DOMAIN tasks |->
                            IF \E p \in 1..k : log[p] = i
                            THEN [tasks[i] EXCEPT !.st = "collected"]
                            ELSE tasks[i]]
            /\ log' = SubSeq(log, k + 1, Len(log))
            /\ pc' = IF raises THEN "crashed" ELSE pc
            /\ crash_phase' = IF raises THEN "running" ELSE crash_phase
            /\ stop_reason' = IF raises THEN "exception" ELSE stop_reason
    /\ UNCHANGED sem
    /\ EvaluatorFrame

\* Line 65: `return results`, once as_completed is exhausted.
RunReturns ==
    /\ pc = "running"
    /\ \A i \in DOMAIN tasks : tasks[i].st = "collected"
    /\ pc' = "evaluated"
    /\ UNCHANGED << tasks, sem, results, log, stop_reason, crash_phase >>
    /\ EvaluatorFrame

\* asyncio.run, after run has ended with the exception: the coroutines that
\* are still pending are cancelled, each in a callback of its own; one that
\* holds the semaphore leaves it.
EvaluatorCancel(i) ==
    /\ pc = "crashed"
    /\ tasks[i].st \in {"waiting", "inflight"}
    /\ tasks' = [tasks EXCEPT ![i].st = "cancelled"]
    /\ sem' = IF tasks[i].st = "inflight" THEN sem + 1 ELSE sem
    /\ UNCHANGED << pc, results, log, stop_reason, crash_phase >>
    /\ EvaluatorFrame

EvaluatorNext ==
    \/ \E i \in DOMAIN tasks : EvaluatorAcquire(i)
    \/ \E i \in DOMAIN tasks : \E data \in ApiBodies : ApiAnswers(i, data)
    \/ \E i \in DOMAIN tasks : ApiFails(i)
    \/ RunCollects
    \/ RunReturns
    \/ \E i \in DOMAIN tasks : EvaluatorCancel(i)
    \/ Summarize

EvaluatorSpec == EvaluatorInit /\ [][EvaluatorNext]_vars

FailedCalls == {i \in DOMAIN tasks : tasks[i].failed}
ResultsOf(id) == {k \in DOMAIN results : results[k].id = id}
ExpectedClean(msg) == ~msg.isFlagged
\* C40: Evaluator.run returns exactly one result per input message whichever
\* calls failed, and no exception of a call ends run: a failed call ends with
\* a returned result, and run ends with an exception only when a message
\* without flag_definitions raised before its request was sent, never when
\* every message was sent; the result of a failed call has no actual flag and
\* is not flagged, so it is a true_negative and an exact match when the
\* message was expected clean and a miss otherwise.
C40_FailedCallsAreCleanPredictions ==
    /\ \A i \in FailedCalls :
            /\ ~tasks[i].out.raised
            /\ tasks[i].out.result = error_result(dataset[i])
    /\ pc = "crashed" =>
            \E i \in DOMAIN tasks :
                /\ tasks[i].out.raised
                /\ DefinitionsRaise(dataset[i])
                /\ i \notin FailedCalls
    /\ (\A i \in DOMAIN dataset : ~DefinitionsRaise(dataset[i])) => pc # "crashed"
    /\ pc \in {"evaluated", "summarized"} =>
            /\ Len(results) = Len(dataset)
            /\ \A i \in DOMAIN dataset : Cardinality(ResultsOf(dataset[i].id)) = 1
    /\ \A i \in FailedCalls :
        \A k \in ResultsOf(dataset[i].id) :
            /\ results[k].actual_flags = << >>
            /\ results[k].actual_is_flagged = FALSE
            /\ results[k].expected_flags = dataset[i].expected_flags
            /\ results[k].expected_is_flagged = dataset[i].isFlagged
            /\ get_match_type(results[k]) =
                    IF ExpectedClean(dataset[i]) THEN "true_negative" ELSE "missed"
            /\ is_exact_match(results[k]) <=> ExpectedClean(dataset[i])
            /\ pc = "summarized" => results[k].match_type = get_match_type(results[k])
\* Three messages, a clean and two flagged ones; the calls of the clean and of
\* one flagged message failed, the third was answered, and run has returned
\* with the results in an order other than that of the messages.
C40_Witness ==
    /\ pc = "evaluated"
    /\ Len(dataset) = 3
    /\ FailedCalls = {1, 3}
    /\ ExpectedClean(dataset[1])
    /\ ~ExpectedClean(dataset[3])
    /\ Len(results) = 3
    /\ results[1].id = 3
    /\ results[2].id = 2
    /\ results[2].actual_is_flagged

====
